---- MODULE Spec2Model ----
(***************************************************************************)
(* Model of the audio ingestion and transcription pipeline of fintalk:     *)
(*   pages/audio_utils.py  convert_webm_to_wav, split_audio,               *)
(*                         process_long_audio and their helpers            *)
(*   pages/api_utils.py    audio_to_text, _extract_transcript_from_response*)
(*   pages/chat.py         _process_audio_to_text, handle_audio_input,     *)
(*                         _generate_audio_response, load_fincard_data,    *)
(*                         save_fincard_data, _handle_fincard_submission   *)
(* Bytes and text are sequences; the file system is a function from file   *)
(* names to contents; Python floats are IEEE-754 doubles, modelled bit for *)
(* bit (53-bit significand, round to nearest even).                        *)
(***************************************************************************)
EXTENDS Integers, Sequences, FiniteSets, TLC

(***************************************************************************)
(* IEEE-754 double arithmetic, as used by split_audio.                     *)
(* A positive double is [m |-> significand bits (most significant first),  *)
(* e |-> exponent of the last bit]; its value is Int(m) * 2^e.  Zero has   *)
(* an empty significand.                                                   *)
(***************************************************************************)
MantissaBits == 53

RECURSIVE Pow2(_)
Pow2(k) == IF k = 0 THEN 1 ELSE 2 * Pow2(k - 1)

Front(s) == SubSeq(s, 1, Len(s) - 1)

Last(s) == s[Len(s)]

\* value of the first i bits of a bit string
RECURSIVE BitsPrefixToInt(_, _)
BitsPrefixToInt(bits, i) ==
    IF i = 0 THEN 0 ELSE 2 * BitsPrefixToInt(bits, i - 1) + bits[i]

BitsToInt(bits) == BitsPrefixToInt(bits, Len(bits))

RECURSIVE IntToBits(_)
IntToBits(c) == IF c = 0 THEN <<>> ELSE Append(IntToBits(c \div 2), c % 2)

AllZero(bits) == \A i \in 1..Len(bits) : bits[i] = 0

\* bits + 1, same length; an all-ones input wraps to all zeros
IncBits(bits) ==
    LET zeros == {i \in 1..Len(bits) : bits[i] = 0}
        k == IF zeros = {} THEN 0 ELSE CHOOSE i \in zeros : \A j \in zeros : j <= i
    IN  [i \in 1..Len(bits) |-> IF i < k THEN bits[i] ELSE IF i = k THEN 1 ELSE 0]

\* round the exact value Int(bits) * 2^e to MantissaBits bits, ties to even
RoundBits(bits, e) ==
    IF Len(bits) <= MantissaBits THEN [m |-> bits, e |-> e]
    ELSE LET keep == SubSeq(bits, 1, MantissaBits)
             rest == SubSeq(bits, MantissaBits + 1, Len(bits))
             half == rest[1] = 1 /\ AllZero(SubSeq(rest, 2, Len(rest)))
             above == rest[1] = 1 /\ ~half
             up == above \/ (half /\ Last(keep) = 1)
             e2 == e + Len(rest)
         IN  IF ~up THEN [m |-> keep, e |-> e2]
             ELSE IF AllZero(IncBits(keep))
                  THEN [m |-> <<1>> \o SubSeq(IncBits(keep), 1, MantissaBits - 1),
                        e |-> e2 + 1]
                  ELSE [m |-> IncBits(keep), e |-> e2]

\* largest s with b * 2^s <= a  (a >= b >= 1)
RECURSIVE ShiftUp(_, _)
ShiftUp(a, b) == IF 2 * b > a THEN 0 ELSE 1 + ShiftUp(a, 2 * b)

\* smallest s with a * 2^s >= b  (a >= 1)
RECURSIVE ShiftDown(_, _)
ShiftDown(a, b) == IF a >= b THEN 0 ELSE 1 + ShiftDown(2 * a, b)

\* long division of a by b for b <= a < 2b: the partial remainders, doubled
\* at each step, after 0..k quotient bits
RECURSIVE Remainders(_, _, _)
Remainders(rems, b, k) ==
    IF k = 0 THEN rems
    ELSE Remainders(Append(rems, 2 * (rems[Len(rems)] % b)), b, k - 1)

\* Python int / int: the correctly rounded double nearest to n / r
FloatDiv(n, r) ==
    IF n = 0 THEN [m |-> <<>>, e |-> 0]
    ELSE LET up == IF n >= r THEN ShiftUp(n, r) ELSE 0
             dn == IF n >= r THEN 0 ELSE ShiftDown(n, r)
             a == n * Pow2(dn)
             b == r * Pow2(up)
             \* MantissaBits + 1 exact bits (guard bit included) and a sticky bit
             rems == Remainders(<<a>>, b, MantissaBits + 1)
             exact == [i \in 1..(MantissaBits + 1) |-> IF rems[i] >= b THEN 1 ELSE 0]
             sticky == rems[MantissaBits + 2] # 0
             bits == IF sticky THEN exact \o <<1>> ELSE exact
             e == (up - dn) - MantissaBits - (IF sticky THEN 1 ELSE 0)
         IN  RoundBits(bits, e)

\* bits * r as an exact bit string; carry[i] is the carry into bit i - 1
\* (carry < r throughout)
MulBits(bits, r) ==
    LET n == Len(bits)
        carry[i \in 1..(n + 1)] ==
            IF i = n + 1 THEN 0 ELSE (bits[i] * r + carry[i + 1]) \div 2
    IN  IntToBits(carry[1]) \o [i \in 1..n |-> (bits[i] * r + carry[i + 1]) % 2]

\* Python float * int (the int is exactly representable): rounded product
FloatMul(x, r) ==
    IF x.m = <<>> \/ r = 0 THEN [m |-> <<>>, e |-> 0]
    ELSE RoundBits(MulBits(x.m, r), x.e)

\* Python int(float): truncation toward zero
FloatTrunc(x) ==
    IF x.m = <<>> THEN 0
    ELSE IF x.e >= 0 THEN BitsToInt(x.m) * Pow2(x.e)
    ELSE IF -x.e >= Len(x.m) THEN 0
    ELSE BitsToInt(SubSeq(x.m, 1, Len(x.m) + x.e))

\* TRUE iff the double has a non-zero fractional part
FloatHasFraction(x) ==
    /\ x.m # <<>>
    /\ x.e < 0
    /\ IF -x.e >= Len(x.m) THEN TRUE
       ELSE ~AllZero(SubSeq(x.m, Len(x.m) + x.e + 1, Len(x.m)))

\* Python int < float and float < int, compared exactly
IntLessFloat(i, x) == i < FloatTrunc(x) \/ (i = FloatTrunc(x) /\ FloatHasFraction(x))

FloatLessInt(x, i) == FloatTrunc(x) < i


(***************************************************************************)
(* Python numbers in split_audio: start_time is an int, total_duration a   *)
(* float, and end_time is whichever of the two min() returns.              *)
(***************************************************************************)
ZeroFloat == [m |-> <<>>, e |-> 0]

PyInt(i) == [isInt |-> TRUE, i |-> i, x |-> ZeroFloat]

PyFloat(x) == [isInt |-> FALSE, i |-> 0, x |-> x]

(***************************************************************************)
(* Text: a Python str is a sequence of one-character strings.              *)
(***************************************************************************)
Whitespace == {" ", "\n"}

SetMin(S) == CHOOSE x \in S : \A y \in S : x <= y

SetMax(S) == CHOOSE x \in S : \A y \in S : y <= x

\* str.strip()
Strip(s) ==
    LET solid == {i \in 1..Len(s) : s[i] \notin Whitespace}
    IN  IF solid = {} THEN <<>> ELSE SubSeq(s, SetMin(solid), SetMax(solid))

(***************************************************************************)
(* The file system: a function from the names of the files that exist to   *)
(* their contents.  A WAV file holds the frames from..to-1 of the recording*)
(* it was cut from; any other file is described by its size in bytes, and  *)
(* a scratch file of the normalizer by the bytes themselves.               *)
(***************************************************************************)
WavHeaderSize == 44

WavFile(rate, channels, sampwidth, from, to) ==
    [kind |-> "wav", rate |-> rate, channels |-> channels, sampwidth |-> sampwidth,
     from |-> from, to |-> to, size |-> WavHeaderSize + (to - from) * channels * sampwidth,
     data |-> <<>>]

OtherFile(kind, size) ==
    [kind |-> kind, rate |-> 0, channels |-> 0, sampwidth |-> 0,
     from |-> 0, to |-> 0, size |-> size, data |-> <<>>]

BytesFile(data) ==
    [kind |-> "bytes", rate |-> 0, channels |-> 0, sampwidth |-> 0,
     from |-> 0, to |-> 0, size |-> Len(data), data |-> data]

Exists(fsys, name) == name \in DOMAIN fsys

GetSize(fsys, name) == fsys[name].size

WriteFile(fsys, name, content) ==
    [f \in DOMAIN fsys \cup {name} |-> IF f = name THEN content ELSE fsys[f]]

RemoveFile(fsys, name) == [f \in DOMAIN fsys \ {name} |-> fsys[f]]

NFrames(file) == file.to - file.from

\* variant of _cleanup_temp_file that leaves the file
_cleanup_temp_file_Keeps(fsys, temp_file) == fsys

\* _cleanup_temp_file: remove the file if it exists
_cleanup_temp_file(fsys, temp_file) ==
    IF Exists(fsys, temp_file) THEN RemoveFile(fsys, temp_file) ELSE fsys

(***************************************************************************)
(* api_utils.audio_to_text and the transcription service's answers.        *)
(* A JSON payload maps each key the code looks at to a value; "result.text"*)
(* and "result.transcript" are the keys inside a nested "result" object.   *)
(***************************************************************************)
Absent == [t |-> "absent", s |-> <<>>]

JStr(s) == [t |-> "str", s |-> s]

JNull == [t |-> "null", s |-> <<>>]

JDict == [t |-> "dict", s |-> <<>>]

Payload(text, transcript, output, result, rtext, rtranscript) ==
    [text |-> text, transcript |-> transcript, output |-> output,
     result |-> result, rtext |-> rtext, rtranscript |-> rtranscript]

EmptyPayload == Payload(Absent, Absent, Absent, Absent, Absent, Absent)

Payloads ==
    { EmptyPayload,
      Payload(JStr(<<" ", "a", "\n">>), Absent, Absent, Absent, Absent, Absent),
      Payload(JStr(<<" ", " ">>), JStr(<<"a">>), Absent, Absent, Absent, Absent),
      Payload(JNull, JStr(<<"a", " ", "b", " ">>), Absent, Absent, Absent, Absent),
      Payload(Absent, Absent, JStr(<<"b">>), JDict, JStr(<<"a">>), Absent),
      Payload(Absent, Absent, JNull, JDict, Absent, JStr(<<"\n", "b">>)),
      Payload(JNull, Absent, Absent, JDict, JNull, Absent),
      Payload(Absent, Absent, Absent, JStr(<<"a">>), Absent, Absent) }

\* Python str(value) of a JSON value found under result
PyStr(v) == IF v.t = "str" THEN v.s ELSE <<"N", "o", "n", "e">>

FirstString(vals) ==
    LET hits == {i \in 1..Len(vals) : vals[i].t = "str"}
    IN  IF hits = {} THEN Absent ELSE vals[SetMin(hits)]

FirstPresent(vals) ==
    LET hits == {i \in 1..Len(vals) : vals[i].t # "absent"}
    IN  IF hits = {} THEN Absent ELSE vals[SetMin(hits)]

_extract_transcript_from_response(payload) ==
    LET top == FirstString(<<payload.text, payload.transcript, payload.output>>)
        nested == FirstPresent(<<payload.rtext, payload.rtranscript>>)
    IN  IF top.t = "str" THEN Strip(top.s)
        ELSE IF payload.result.t = "dict" /\ nested.t # "absent" THEN Strip(PyStr(nested))
        ELSE <<>>

Response(kind, status, payload) == [kind |-> kind, status |-> status, payload |-> payload]

\* what requests.post can do: raise, answer with a non-200 status, answer 200
\* with a body that is not JSON, answer 200 with JSON that is not an object
\* (the key lookups raise TypeError), or answer 200 with a JSON payload
Responses ==
    { Response("neterror", 0, EmptyPayload),
      Response("http", 500, EmptyPayload),
      Response("badjson", 200, EmptyPayload),
      Response("notobject", 200, EmptyPayload) }
    \cup { Response("http", 200, p) : p \in Payloads }

\* variant of AudioFileUsable that forgets the size test
AudioFileUsable_ExistsOnly(fsys, audio_file_path) == Exists(fsys, audio_file_path)

\* line 54
AudioFileUsable(fsys, audio_file_path) ==
    Exists(fsys, audio_file_path) /\ GetSize(fsys, audio_file_path) # 0

audio_to_text(key, fsys, audio_file_path, resp) ==
    IF ~key THEN <<>>
    ELSE IF ~AudioFileUsable(fsys, audio_file_path) THEN <<>>
    ELSE IF resp.kind = "neterror" THEN <<>>
    ELSE IF resp.status = 200
         THEN (IF resp.kind \in {"badjson", "notobject"} THEN <<>>
               ELSE _extract_transcript_from_response(resp.payload))
    ELSE <<>>


(***************************************************************************)
(* Bytes: a Python bytes object is a sequence of integers 0..255; None is  *)
(* the one-element sequence NoBytes, which is no bytes object.             *)
(***************************************************************************)
NoBytes == <<-1>>

\* Python truth value of an Optional[bytes]
Truthy(b) == b # NoBytes /\ b # <<>>

\* b[from:to]
Slice(b, from, to) == SubSeq(b, from + 1, IF to < Len(b) THEN to ELSE Len(b))

Repeat(byte, n) == [i \in 1..n |-> byte]

RECURSIVE Pow256(_)
Pow256(k) == IF k = 0 THEN 1 ELSE 256 * Pow256(k - 1)

\* n.to_bytes(width, 'little')
ToBytesLE(n, width) == [i \in 1..width |-> (n \div Pow256(i - 1)) % 256]

\* int.from_bytes(b, 'little')
RECURSIVE FromBytesLE(_)
FromBytesLE(b) == IF b = <<>> THEN 0 ELSE b[1] + 256 * FromBytesLE(Tail(b))

RIFF == <<82, 73, 70, 70>>

WAVE == <<87, 65, 86, 69>>

FMT == <<102, 109, 116, 32>>

DATA == <<100, 97, 116, 97>>

\* the header create_basic_wav builds, lines 162-175
WavHeader(data_length, sample_rate, num_channels, bits_per_sample) ==
    RIFF \o ToBytesLE(36 + data_length, 4) \o WAVE \o FMT \o ToBytesLE(16, 4)
    \o ToBytesLE(1, 2) \o ToBytesLE(num_channels, 2) \o ToBytesLE(sample_rate, 4)
    \o ToBytesLE((sample_rate * num_channels * bits_per_sample) \div 8, 4)
    \o ToBytesLE((num_channels * bits_per_sample) \div 8, 2)
    \o ToBytesLE(bits_per_sample, 2) \o DATA \o ToBytesLE(data_length, 4)

BasicSampleRate == 44100

BasicChannels == 1

BasicBitsPerSample == 16

create_basic_wav(audio_data) ==
    WavHeader(Len(audio_data), BasicSampleRate, BasicChannels, BasicBitsPerSample)
    \o audio_data

\* variant of _check_existing_wav_format that looks for WAVE at offset 4
_check_existing_wav_format_WrongOffset(bytes) ==
    IF Slice(bytes, 0, 4) = RIFF /\ Slice(bytes, 4, 8) = WAVE THEN bytes ELSE NoBytes

_check_existing_wav_format(bytes) ==
    IF Slice(bytes, 0, 4) = RIFF /\ Slice(bytes, 8, 12) = WAVE THEN bytes ELSE NoBytes

FallbackMinBytes == 1000

_create_basic_wav_fallback(audio_data) ==
    IF Len(audio_data) <= FallbackMinBytes THEN NoBytes ELSE create_basic_wav(audio_data)

(***************************************************************************)
(* soundfile: sf.read followed by sf.write(format='WAV').  The library     *)
(* reads a PCM WAV container of 8 or 16 bits per sample and writes it back *)
(* with the default subtype of the WAV format, 16-bit PCM; it raises on    *)
(* anything that is not a container it knows.  decodes = FALSE is the      *)
(* library raising on a container it could have read.  A sample read is    *)
(* kept as the integer s that stands for the float s / 32768; on writing   *)
(* the library scales a float by 32767 and rounds to the nearest integer,  *)
(* ties to even.                                                           *)
(***************************************************************************)
IsPcmWav(bytes) ==
    /\ Len(bytes) >= WavHeaderSize
    /\ Slice(bytes, 0, 4) = RIFF
    /\ Slice(bytes, 8, 12) = WAVE
    /\ Slice(bytes, 12, 16) = FMT
    /\ FromBytesLE(Slice(bytes, 20, 22)) = 1
    /\ FromBytesLE(Slice(bytes, 22, 24)) >= 1
    /\ FromBytesLE(Slice(bytes, 34, 36)) \in {8, 16}
    /\ Slice(bytes, 36, 40) = DATA

\* np.frombuffer(b, dtype=np.int16): the little-endian signed samples
Samples16(b) ==
    [i \in 1..(Len(b) \div 2) |->
        LET u == b[2 * i - 1] + 256 * b[2 * i]
        IN  IF u >= 32768 THEN u - 65536 ELSE u]

\* the sample payload of a PCM WAV container: the whole frames that are there
WavPayload(bytes) ==
    LET channels == FromBytesLE(Slice(bytes, 22, 24))
        bits == FromBytesLE(Slice(bytes, 34, 36))
        declared == FromBytesLE(Slice(bytes, 40, 44))
        there == Len(bytes) - WavHeaderSize
        usable == IF declared < there THEN declared ELSE there
        block == (channels * bits) \div 8
        frames == usable \div block
    IN  Slice(bytes, WavHeaderSize, WavHeaderSize + frames * block)

\* sf.read: the samples of the container, 8-bit ones widened to 16 bits
SfDecode(bytes) ==
    IF FromBytesLE(Slice(bytes, 34, 36)) = 16 THEN Samples16(WavPayload(bytes))
    ELSE [i \in 1..Len(WavPayload(bytes)) |-> (WavPayload(bytes)[i] - 128) * 256]

\* lrint(s / 32768 * 32767)
SfScale(s) ==
    LET q == (s * 32767) \div 32768
        r == (s * 32767) % 32768
    IN  IF 2 * r > 32768 \/ (2 * r = 32768 /\ q % 2 = 1) THEN q + 1 ELSE q

\* sf.write with subtype PCM_16: the samples as little-endian 16-bit integers
SfEncode16(samples) ==
    [i \in 1..(2 * Len(samples)) |->
        LET u == (SfScale(samples[(i + 1) \div 2]) + 65536) % 65536
        IN  IF i % 2 = 1 THEN u % 256 ELSE u \div 256]

SfReencode(bytes) ==
    LET channels == FromBytesLE(Slice(bytes, 22, 24))
        rate == FromBytesLE(Slice(bytes, 24, 28))
        samples16 == SfEncode16(SfDecode(bytes))
    IN  WavHeader(Len(samples16), rate, channels, 16) \o samples16

_try_soundfile_conversion(available, bytes, decodes) ==
    IF ~available THEN NoBytes
    ELSE IF IsPcmWav(bytes) /\ decodes THEN SfReencode(bytes)
    ELSE NoBytes

(***************************************************************************)
(* State.                                                                  *)
(***************************************************************************)
VARIABLES
    fs,               \* the file system
    apiKey,           \* TRUE iff SARVAM_API_KEY is set
    pc,               \* position of process_long_audio
    sp,               \* locals of split_audio
    chunks,           \* the list split_audio builds and returns
    pos,              \* index in chunks of the chunk the for loop is at
    final_transcript, \* accumulator of process_long_audio
    result,           \* the value process_long_audio returned
    ranges,           \* history: <<start_frame, end_frame>> of every chunk carved
    writeFailed,      \* history: some _create_audio_chunk call failed
    created,          \* history: names of the chunk files this call created
    calls,            \* history: the audio_to_text calls, [file, frames, text]
    splitCalls,       \* history: number of split_audio calls
    caught,           \* history: the except clause of process_long_audio ran
    cpc,              \* position of convert_webm_to_wav
    audio_bytes,      \* its argument
    soundfile,        \* SOUNDFILE_AVAILABLE
    wav_data,         \* its local wav_data
    cresult,          \* the value it returned
    tried,            \* history: the strategies it tried, [name, out], in order
    cexc,             \* history: its except clause ran
    tempCreated       \* history: it created the scratch file

orchVars == <<pc, sp, chunks, pos, final_transcript, result, ranges, writeFailed,
              created, calls, splitCalls, caught>>

convVars == <<cpc, audio_bytes, soundfile, wav_data, cresult, tried, cexc, tempCreated>>

VARIABLES
    hpc,              \* position of create_basic_wav
    data_length,      \* its local data_length = len(audio_data), as wide digits
    hresult           \* the header of the value it returned

hdrVars == <<hpc, data_length, hresult>>

VARIABLES
    dpc,              \* position of detect_silence
    silence_bytes,    \* its argument audio_bytes
    threshold,        \* its argument threshold, a fraction [num, den]
    dvalue,           \* what the helper's try body produced
    dresult,          \* the value detect_silence returned
    dexc,             \* history: the except clause of detect_silence ran
    dtemp             \* history: the scratch file temp_silence_check was created

silVars == <<dpc, silence_bytes, threshold, dvalue, dresult, dexc, dtemp>>

VARIABLES
    mpc,              \* position of merge_audio
    audio_files,      \* its argument
    mg,               \* locals of the merge helpers
    mexc,             \* history: the except clause of merge_audio ran
    mfs0              \* history: the file system when merge_audio was called

mergeVars == <<mpc, audio_files, mg, mexc, mfs0>>

VARIABLES
    tpc,              \* position of audio_to_text
    tpath,            \* its argument audio_file_path
    tresp,            \* what requests.post did
    tresult,          \* the value audio_to_text returned
    posts             \* history: number of requests.post calls

sttVars == <<tpc, tpath, tresp, tresult, posts>>

VARIABLES
    rq,               \* the locals of each running _process_audio_to_text call
    writer,           \* history: for each file on disk, the call that wrote it
    foreign,          \* history: the accesses of a call to another call's file
    overlap,          \* history: two calls have been running at the same time
    serial            \* TRUE iff the server runs one call at a time

reqVars == <<rq, writer, foreign, overlap, serial>>

VARIABLES
    vpc,              \* position of _generate_audio_response
    vreq,             \* number of the voice request being answered
    played            \* history: what each voice request ended with

voiceVars == <<vpc, vreq, played>>

VARIABLES
    messages,          \* st.session_state.messages
    original_language, \* st.session_state["original_language"]
    sent,              \* history: the transcripts sent on to the language model
    handled            \* history: the requests whose handle_audio_input returned

handleVars == <<messages, original_language, sent, handled>>

VARIABLES
    fpc,              \* position of _handle_fincard_submission
    cardFile,         \* the FinCard data file
    fincard_data,     \* its local fincard_data
    fbefore,          \* history: what the file held when the submission began
    fcount            \* the number of submissions so far

cardVars == <<fpc, cardFile, fincard_data, fbefore, fcount>>

\* the variables of the other operations, which a step of process_long_audio
\* or convert_webm_to_wav leaves alone
extVars ==
    <<hdrVars, silVars, mergeVars, sttVars, reqVars, voiceVars, handleVars, cardVars>>

extButHdr ==
    <<silVars, mergeVars, sttVars, reqVars, voiceVars, handleVars, cardVars>>

extButSil ==
    <<hdrVars, mergeVars, sttVars, reqVars, voiceVars, handleVars, cardVars>>

extButMerge ==
    <<hdrVars, silVars, sttVars, reqVars, voiceVars, handleVars, cardVars>>

extButStt ==
    <<hdrVars, silVars, mergeVars, reqVars, voiceVars, handleVars, cardVars>>

extButReq ==
    <<hdrVars, silVars, mergeVars, sttVars, voiceVars, handleVars, cardVars>>

extButCard == <<hdrVars, silVars, mergeVars, sttVars, reqVars, voiceVars, handleVars>>

IdleHdr == hpc = "idle" /\ data_length = <<>> /\ hresult = <<>>

IdleSil ==
    /\ dpc = "idle"
    /\ silence_bytes = <<>>
    /\ threshold = [num |-> 1, den |-> 10]
    /\ dvalue = "none"
    /\ dresult = "pending"
    /\ dexc = FALSE
    /\ dtemp = FALSE

\* i: index of the loop; rate, channels, bits: the format adopted for the
\* output (rate 0 is sample_rate = None); data: what has been collected,
\* frames as bytes on the wave path, samples on the soundfile path; shapes:
\* the channel counts of the arrays in all_audio_data; raised: the merge
\* step raised; ioFailed: it did because the output file could not be opened
\* or because the library failed on a container it can read
NoMerge ==
    [i |-> 0, rate |-> 0, channels |-> 0, bits |-> 0, data |-> <<>>, shapes |-> <<>>,
     raised |-> FALSE, ioFailed |-> FALSE]

IdleMerge ==
    /\ mpc = "idle"
    /\ audio_files = <<>>
    /\ mg = NoMerge
    /\ mexc = FALSE
    /\ mfs0 = <<>>

IdleStt ==
    /\ tpc = "idle"
    /\ tpath = ""
    /\ tresp = Response("none", 0, EmptyPayload)
    /\ tresult = <<>>
    /\ posts = 0

IdleReq ==
    /\ rq = <<>>
    /\ writer = <<>>
    /\ foreign = {}
    /\ overlap = FALSE
    /\ serial = TRUE

IdleVoice == vpc = "idle" /\ vreq = 0 /\ played = <<>>

IdleHandle ==
    /\ messages = <<>>
    /\ original_language = "none"
    /\ sent = <<>>
    /\ handled = {}

IdleCard ==
    /\ fpc = "idle"
    /\ cardFile = [kind |-> "missing", entries |-> <<>>]
    /\ fincard_data = <<>>
    /\ fbefore = <<>>
    /\ fcount = 0

IdleExt ==
    /\ IdleHdr /\ IdleSil /\ IdleMerge /\ IdleStt /\ IdleReq
    /\ IdleVoice /\ IdleHandle /\ IdleCard

(***************************************************************************)
(* Inputs of process_long_audio.                                           *)
(***************************************************************************)
ChunkLength == 30

MaxFullChunks == 2

MaxRestFrames == 16

FrameRates == {0, 1, 49, 44100}

FrameCounts(rate) ==
    {ChunkLength * rate * full + rest : full \in 0..MaxFullChunks, rest \in 0..MaxRestFrames}

InputFile == "recorded_audio.wav"

NonWavSize == 2000

\* what the input path may name: nothing, an empty file, a file that is not
\* a WAV container, or a mono 16-bit WAV file
InputContents ==
    {OtherFile("raw", 0), OtherFile("raw", NonWavSize)}
    \cup UNION {{WavFile(rate, 1, 2, 0, n) : n \in FrameCounts(rate)} : rate \in FrameRates}

NoName == ""

NoText == <<>>

\* variant of ChunkName in which the chunk is written over the input file
ChunkName_InputPath(index) == InputFile

\* line 291: chunk_filename = f"chunk_{index}.wav"
ChunkName(index) == "chunk_" \o ToString(index) \o ".wav"

NoSplit ==
    [frame_rate |-> 0, num_frames |-> 0, total_duration |-> ZeroFloat,
     start_time |-> 0, index |-> 0]

(***************************************************************************)
(* split_audio and _create_audio_chunk.                                    *)
(***************************************************************************)
\* int(time * frame_rate)
TimeToFrame(time, frame_rate) ==
    IF time.isInt THEN time.i * frame_rate
    ELSE FloatTrunc(FloatMul(time.x, frame_rate))

\* min(start_time + chunk_length, total_duration): the float only if smaller
EndTime(start_time, chunk_length, total_duration) ==
    IF FloatLessInt(total_duration, start_time + chunk_length)
    THEN PyFloat(total_duration)
    ELSE PyInt(start_time + chunk_length)

ChunkOutcomes == {"ok", "open_fails", "write_fails"}

\* outcome "open_fails": an error before the chunk file exists;
\* outcome "write_fails": writeframes fails after wave.open created the file
_create_audio_chunk(fsys, audio, start_time, end_time, frame_rate, index, outcome) ==
    LET start_frame == TimeToFrame(start_time, frame_rate)
        end_frame == TimeToFrame(end_time, frame_rate)
        wanted == end_frame - start_frame
        left == NFrames(audio) - start_frame
        got == IF wanted < 0 THEN 0 ELSE IF wanted < left THEN wanted ELSE left
        chunk_filename == ChunkName(index)
        badpos == start_frame < 0 \/ start_frame > NFrames(audio)
        chunk == WavFile(frame_rate, audio.channels, audio.sampwidth,
                         audio.from + start_frame, audio.from + start_frame + got)
    IN  IF badpos \/ outcome = "open_fails"
        THEN [name |-> NoName, fs |-> fsys, start_frame |-> start_frame,
              end_frame |-> end_frame]
        ELSE IF outcome = "write_fails"
        THEN [name |-> NoName, fs |-> WriteFile(fsys, chunk_filename, OtherFile("partial", 0)),
              start_frame |-> start_frame, end_frame |-> end_frame]
        ELSE [name |-> chunk_filename, fs |-> WriteFile(fsys, chunk_filename, chunk),
              start_frame |-> start_frame, end_frame |-> end_frame]

\* while start_time < total_duration
SplitContinues(start_time, total_duration) == IntLessFloat(start_time, total_duration)

\* lines 251-260: open the file and read its header; wave.open raises on a
\* file that is not a WAV container, the division on a frame rate of 0
SplitOpen ==
    /\ pc = "split"
    /\ splitCalls' = splitCalls + 1
    /\ chunks' = <<>>
    /\ LET audio == fs[InputFile]
       IN  IF audio.kind # "wav" \/ audio.rate = 0
           THEN /\ pc' = "check"
                /\ sp' = sp
           ELSE /\ pc' = "split_loop"
                /\ sp' = [frame_rate |-> audio.rate, num_frames |-> NFrames(audio),
                          total_duration |-> FloatDiv(NFrames(audio), audio.rate),
                          start_time |-> 0, index |-> 1]
    /\ UNCHANGED <<fs, apiKey, pos, final_transcript, result, ranges, writeFailed,
                   created, calls, caught>>
    /\ UNCHANGED <<convVars, extVars>>

\* variant of Advance in which a chunk that was not written ends the loop
Advance_StopsAtFailure(start_time, chunk_length, written, total_duration) ==
    IF written \/ ~SplitContinues(start_time + chunk_length, total_duration)
    THEN start_time + chunk_length
    ELSE CHOOSE t \in {start_time + k * chunk_length : k \in 1..(MaxFullChunks + 2)} :
            ~SplitContinues(t, total_duration)

\* line 271: start_time += chunk_length, whether or not the chunk was written
Advance(start_time, chunk_length, written, total_duration) == start_time + chunk_length

\* lines 262-272: one iteration of the while loop
SplitIter ==
    /\ pc = "split_loop"
    /\ SplitContinues(sp.start_time, sp.total_duration)
    /\ \E outcome \in ChunkOutcomes :
         LET end_time == EndTime(sp.start_time, ChunkLength, sp.total_duration)
             made == _create_audio_chunk(fs, fs[InputFile], PyInt(sp.start_time), end_time,
                                         sp.frame_rate, sp.index, outcome)
         IN  /\ fs' = made.fs
             /\ chunks' = IF made.name # NoName THEN Append(chunks, made.name) ELSE chunks
             /\ ranges' = Append(ranges, <<made.start_frame, made.end_frame>>)
             /\ writeFailed' = (writeFailed \/ made.name = NoName)
             /\ created' = created \cup (DOMAIN made.fs \ DOMAIN fs)
             /\ sp' = [sp EXCEPT !.start_time = Advance(@, ChunkLength, made.name # NoName,
                                                        sp.total_duration),
                                 !.index = @ + 1]
    /\ UNCHANGED <<apiKey, pc, pos, final_transcript, result, calls, splitCalls, caught>>
    /\ UNCHANGED <<convVars, extVars>>

\* line 262 false, line 278: return chunks
SplitReturn ==
    /\ pc = "split_loop"
    /\ ~SplitContinues(sp.start_time, sp.total_duration)
    /\ pc' = "check"
    /\ UNCHANGED <<fs, apiKey, sp, chunks, pos, final_transcript, result, ranges,
                   writeFailed, created, calls, splitCalls, caught>>
    /\ UNCHANGED <<convVars, extVars>>

(***************************************************************************)
(* process_long_audio.                                                     *)
(***************************************************************************)
\* variant of Handler with the import placed before the try block
Handler_ImportOutsideTry(step) == IF step = "import" THEN "propagated" ELSE "except"

\* lines 381 and 406: where control goes when a step of process_long_audio
\* raises; every step is inside the try block
Handler(step) == "except"

\* line 382: the import inside the try block; it may raise ImportError
Import ==
    /\ pc = "start"
    /\ \E ok \in BOOLEAN : pc' = IF ok THEN "validate" ELSE Handler("import")
    /\ UNCHANGED <<fs, apiKey, sp, chunks, pos, final_transcript, result, ranges,
                   writeFailed, created, calls, splitCalls, caught>>
    /\ UNCHANGED <<convVars, extVars>>

\* variant of InputUsable that forgets the size test
InputUsable_ExistsOnly(fsys, input_file) == Exists(fsys, input_file)

\* line 384
InputUsable(fsys, input_file) == Exists(fsys, input_file) /\ GetSize(fsys, input_file) # 0

\* lines 384-386
Validate ==
    /\ pc = "validate"
    /\ IF InputUsable(fs, InputFile)
       THEN pc' = "split" /\ result' = result
       ELSE pc' = "done" /\ result' = NoText
    /\ UNCHANGED <<fs, apiKey, sp, chunks, pos, final_transcript, ranges,
                   writeFailed, created, calls, splitCalls, caught>>
    /\ UNCHANGED <<convVars, extVars>>

\* lines 390 and 396
CheckChunks ==
    /\ pc = "check"
    /\ pc' = IF chunks = <<>> THEN "whole" ELSE "loop"
    /\ final_transcript' = NoText
    /\ pos' = 1
    /\ UNCHANGED <<fs, apiKey, sp, chunks, result, ranges, writeFailed, created,
                   calls, splitCalls, caught>>
    /\ UNCHANGED <<convVars, extVars>>

FramesOf(fsys, name) ==
    IF Exists(fsys, name) /\ fsys[name].kind = "wav" THEN NFrames(fsys[name]) ELSE 0

Call(name, text) == [file |-> name, frames |-> FramesOf(fs, name), text |-> text]

\* variant of WholeFileResult that drops the transcript
WholeFileResult_Dropped(transcript) == NoText

\* line 393: transcript.strip() if transcript else ""
WholeFileResult(transcript) == IF transcript # NoText THEN Strip(transcript) ELSE NoText

\* lines 391-393: transcribe the whole original file
WholeFile ==
    /\ pc = "whole"
    /\ \E resp \in Responses :
         LET transcript == audio_to_text(apiKey, fs, InputFile, resp)
         IN  /\ calls' = Append(calls, Call(InputFile, transcript))
             /\ result' = WholeFileResult(transcript)
    /\ pc' = "done"
    /\ UNCHANGED <<fs, apiKey, sp, chunks, pos, final_transcript, ranges,
                   writeFailed, created, splitCalls, caught>>
    /\ UNCHANGED <<convVars, extVars>>

\* variant of AddTranscript without the test for an empty transcript
AddTranscript_NoSkip(final, transcript) == final \o transcript \o <<" ">>

\* lines 400-401
AddTranscript(final, transcript) ==
    IF transcript # NoText THEN final \o transcript \o <<" ">> ELSE final

\* variant of AfterCall that gives up at the first chunk without text
AfterCall_AbortOnEmpty(transcript) == IF transcript = NoText THEN "except" ELSE "cleanup"

\* lines 397-402: the loop body goes on to the cleanup whatever the call
\* returned
AfterCall(transcript) == "cleanup"

\* lines 397-401: the transcription call of one chunk
TranscribeChunk ==
    /\ pc = "loop"
    /\ pos <= Len(chunks)
    /\ \E resp \in Responses :
         LET transcript == audio_to_text(apiKey, fs, chunks[pos], resp)
         IN  /\ calls' = Append(calls, Call(chunks[pos], transcript))
             /\ final_transcript' = AddTranscript(final_transcript, transcript)
             /\ pc' = AfterCall(transcript)
    /\ UNCHANGED <<fs, apiKey, sp, chunks, pos, result, ranges, writeFailed,
                   created, splitCalls, caught>>
    /\ UNCHANGED <<convVars, extVars>>

\* line 402
CleanupChunk ==
    /\ pc = "cleanup"
    /\ fs' = _cleanup_temp_file(fs, chunks[pos])
    /\ pos' = pos + 1
    /\ pc' = "loop"
    /\ UNCHANGED <<apiKey, sp, chunks, final_transcript, result, ranges,
                   writeFailed, created, calls, splitCalls, caught>>
    /\ UNCHANGED <<convVars, extVars>>

\* line 404
Return ==
    /\ pc = "loop"
    /\ pos > Len(chunks)
    /\ result' = Strip(final_transcript)
    /\ pc' = "done"
    /\ UNCHANGED <<fs, apiKey, sp, chunks, pos, final_transcript, ranges,
                   writeFailed, created, calls, splitCalls, caught>>
    /\ UNCHANGED <<convVars, extVars>>

\* lines 406-409
Except ==
    /\ pc = "except"
    /\ caught' = TRUE
    /\ result' = NoText
    /\ pc' = "done"
    /\ UNCHANGED <<fs, apiKey, sp, chunks, pos, final_transcript, ranges,
                   writeFailed, created, calls, splitCalls>>
    /\ UNCHANGED <<convVars, extVars>>

\* the value of result while process_long_audio has not returned
Pending == <<"pending">>

InitOrch ==
    /\ \E present \in BOOLEAN : \E content \in InputContents :
         fs = IF present THEN [f \in {InputFile} |-> content] ELSE [f \in {} |-> content]
    /\ apiKey \in BOOLEAN
    /\ pc = "start"
    /\ sp = NoSplit
    /\ chunks = <<>>
    /\ pos = 0
    /\ final_transcript = NoText
    /\ result = Pending
    /\ ranges = <<>>
    /\ writeFailed = FALSE
    /\ created = {}
    /\ calls = <<>>
    /\ splitCalls = 0
    /\ caught = FALSE
    /\ cpc = "idle"
    /\ audio_bytes = <<>>
    /\ soundfile = FALSE
    /\ wav_data = NoBytes
    /\ cresult = NoBytes
    /\ tried = <<>>
    /\ cexc = FALSE
    /\ tempCreated = FALSE
    /\ IdleExt

vars == <<fs, apiKey, pc, sp, chunks, pos, final_transcript, result, ranges,
          writeFailed, created, calls, splitCalls, caught,
          cpc, audio_bytes, soundfile, wav_data, cresult, tried, cexc, tempCreated,
          extVars>>

NextOrch ==
    \/ Import
    \/ Validate
    \/ SplitOpen
    \/ SplitIter
    \/ SplitReturn
    \/ CheckChunks
    \/ WholeFile
    \/ TranscribeChunk
    \/ CleanupChunk
    \/ Return
    \/ Except

SpecOrch == InitOrch /\ [][NextOrch]_vars

\* lines 380-385 and 240-278: the call as far as the return of split_audio
NextSplit ==
    \/ Import
    \/ Validate
    \/ SplitOpen
    \/ SplitIter
    \/ SplitReturn

\* the steps of the call around the loop of split_audio
SplitEnds == Import \/ Validate \/ SplitReturn

\* the steps that evaluate the float arithmetic of split_audio
SplitWork == SplitOpen \/ SplitIter

\* a step of SplitWork is possible
SplitRunning ==
    \/ pc = "split"
    \/ pc = "split_loop" /\ SplitContinues(sp.start_time, sp.total_duration)

\* the interpreter goes on running split_audio: a step is taken whenever one
\* is possible.  For SplitWork this is weak fairness with its enabling
\* condition written out as SplitRunning
SplitFairness ==
    /\ WF_vars(SplitEnds)
    /\ ([]<>~SplitRunning) \/ ([]<><<SplitWork>>_vars)

SpecSplit == InitOrch /\ [][NextSplit]_vars /\ SplitFairness


(***************************************************************************)
(* Inputs of convert_webm_to_wav: recordings of several container kinds and*)
(* of lengths around the two size thresholds of the code.                  *)
(***************************************************************************)
MinAudioBytes == 100

LengthSlack == 1

InputLengths ==
    {0, 4, 12, WavHeaderSize}
    \cup ((MinAudioBytes - LengthSlack)..(MinAudioBytes + LengthSlack))
    \cup ((FallbackMinBytes - LengthSlack)..(FallbackMinBytes + LengthSlack + 1))

InputKinds == {"wav16", "wav8", "webm", "avi"}

WebmMagic == <<26, 69, 223, 163>>

AVI == <<65, 86, 73, 32>>

PayloadLength(len) == IF len > WavHeaderSize THEN len - WavHeaderSize ELSE 0

\* the first len bytes of a recording of the given kind
Recording(kind, len) ==
    LET head == CASE kind = "wav16" -> WavHeader(PayloadLength(len), 44100, 1, 16)
                  [] kind = "wav8" -> WavHeader(PayloadLength(len), 8000, 1, 8)
                  [] kind = "avi" -> RIFF \o ToBytesLE(PayloadLength(len) + 36, 4) \o AVI
                  [] OTHER -> WebmMagic
    IN  Slice(head \o Repeat(7, len), 0, len)

TempFile == "temp_audio_input"

(***************************************************************************)
(* convert_webm_to_wav.                                                    *)
(***************************************************************************)
\* variant of InputRejected that tests for empty input only
InputRejected_EmptyOnly(bytes) == Len(bytes) = 0

\* lines 45 and 52: not audio_bytes or len(audio_bytes) == 0; len(audio_bytes) < 100
InputRejected(bytes) == Len(bytes) = 0 \/ Len(bytes) < MinAudioBytes

\* lines 45-54: the two size tests, before the try block
ConvStart ==
    /\ cpc = "start"
    /\ IF InputRejected(audio_bytes)
       THEN cpc' = "done" /\ cresult' = NoBytes
       ELSE cpc' = "write" /\ cresult' = cresult
    /\ UNCHANGED <<fs, apiKey, audio_bytes, soundfile, wav_data, tried, cexc, tempCreated>>
    /\ UNCHANGED <<orchVars, extVars>>

WriteOutcomes == {"ok", "open_fails", "write_fails"}

\* variant of ExceptExit in which the handler returns without the cleanup
ExceptExit_SkipsCleanup == "done"

\* lines 81-86: the finally clause runs after the except clause
ExceptExit == "finally"

\* lines 60-62: write the scratch file; open or write may raise
ConvWrite ==
    /\ cpc = "write"
    /\ \E outcome \in WriteOutcomes :
         /\ fs' = CASE outcome = "ok" -> WriteFile(fs, TempFile, BytesFile(audio_bytes))
                    [] outcome = "write_fails" -> WriteFile(fs, TempFile, BytesFile(<<>>))
                    [] OTHER -> fs
         /\ tempCreated' = (outcome # "open_fails")
         /\ cpc' = IF outcome = "ok" THEN "soundfile" ELSE "except"
    /\ UNCHANGED <<apiKey, audio_bytes, soundfile, wav_data, cresult, tried, cexc>>
    /\ UNCHANGED <<orchVars, extVars>>

Attempt(name, out) == [name |-> name, out |-> out]

\* variant of AfterStrategy that tries fallback synthesis before passthrough
AfterStrategy_FallbackFirst(name, out) ==
    IF Truthy(out) THEN "finish"
    ELSE CASE name = "soundfile" -> "fallback"
           [] name = "fallback" -> "passthrough"
           [] OTHER -> "finish"

\* variant of AfterStrategy that gives up after the passthrough check
AfterStrategy_SkipsFallback(name, out) ==
    IF Truthy(out) THEN "finish"
    ELSE CASE name = "soundfile" -> "passthrough"
           [] OTHER -> "finish"

\* lines 65-71: the next strategy is tried only if wav_data is still empty
AfterStrategy(name, out) ==
    IF Truthy(out) THEN "finish"
    ELSE CASE name = "soundfile" -> "passthrough"
           [] name = "passthrough" -> "fallback"
           [] OTHER -> "finish"

\* line 65
ConvSoundfile ==
    /\ cpc = "soundfile"
    /\ \E decodes \in BOOLEAN :
         LET out == _try_soundfile_conversion(soundfile, fs[TempFile].data, decodes)
         IN  /\ wav_data' = out
             /\ tried' = Append(tried, Attempt("soundfile", out))
             /\ cpc' = AfterStrategy("soundfile", out)
    /\ UNCHANGED <<fs, apiKey, audio_bytes, soundfile, cresult, cexc, tempCreated>>
    /\ UNCHANGED <<orchVars, extVars>>

\* lines 67-68
ConvPassthrough ==
    /\ cpc = "passthrough"
    /\ LET out == _check_existing_wav_format(audio_bytes)
       IN  /\ wav_data' = out
           /\ tried' = Append(tried, Attempt("passthrough", out))
           /\ cpc' = AfterStrategy("passthrough", out)
    /\ UNCHANGED <<fs, apiKey, audio_bytes, soundfile, cresult, cexc, tempCreated>>
    /\ UNCHANGED <<orchVars, extVars>>

\* lines 70-71
ConvFallback ==
    /\ cpc = "fallback"
    /\ LET out == _create_basic_wav_fallback(audio_bytes)
       IN  /\ wav_data' = out
           /\ tried' = Append(tried, Attempt("fallback", out))
           /\ cpc' = AfterStrategy("fallback", out)
    /\ UNCHANGED <<fs, apiKey, audio_bytes, soundfile, cresult, cexc, tempCreated>>
    /\ UNCHANGED <<orchVars, extVars>>

\* lines 73-79
ConvFinish ==
    /\ cpc = "finish"
    /\ cresult' = IF Truthy(wav_data) /\ Len(wav_data) > 0 THEN wav_data ELSE NoBytes
    /\ cpc' = "finally"
    /\ UNCHANGED <<fs, apiKey, audio_bytes, soundfile, wav_data, tried, cexc, tempCreated>>
    /\ UNCHANGED <<orchVars, extVars>>

\* lines 81-84
ConvExcept ==
    /\ cpc = "except"
    /\ cexc' = TRUE
    /\ cresult' = NoBytes
    /\ cpc' = ExceptExit
    /\ UNCHANGED <<fs, apiKey, audio_bytes, soundfile, wav_data, tried, tempCreated>>
    /\ UNCHANGED <<orchVars, extVars>>

\* lines 85-86
ConvFinally ==
    /\ cpc = "finally"
    /\ fs' = _cleanup_temp_file(fs, TempFile)
    /\ cpc' = "done"
    /\ UNCHANGED <<apiKey, audio_bytes, soundfile, wav_data, cresult, tried, cexc, tempCreated>>
    /\ UNCHANGED <<orchVars, extVars>>

\* the value of cresult while convert_webm_to_wav has not returned
PendingBytes == <<-2>>

InitConv ==
    /\ fs = [f \in {} |-> OtherFile("raw", 0)]
    /\ apiKey = TRUE
    /\ pc = "idle"
    /\ sp = NoSplit
    /\ chunks = <<>>
    /\ pos = 0
    /\ final_transcript = NoText
    /\ result = Pending
    /\ ranges = <<>>
    /\ writeFailed = FALSE
    /\ created = {}
    /\ calls = <<>>
    /\ splitCalls = 0
    /\ caught = FALSE
    /\ cpc = "start"
    /\ \E kind \in InputKinds : \E len \in InputLengths : audio_bytes = Recording(kind, len)
    /\ soundfile \in BOOLEAN
    /\ wav_data = NoBytes
    /\ cresult = PendingBytes
    /\ tried = <<>>
    /\ cexc = FALSE
    /\ tempCreated = FALSE
    /\ IdleExt

NextConv ==
    \/ ConvStart
    \/ ConvWrite
    \/ ConvSoundfile
    \/ ConvPassthrough
    \/ ConvFallback
    \/ ConvFinish
    \/ ConvExcept
    \/ ConvFinally

SpecConv == InitConv /\ [][NextConv]_vars

\* process_long_audio and convert_webm_to_wav not running
IdleOrch ==
    /\ pc = "idle"
    /\ sp = NoSplit
    /\ chunks = <<>>
    /\ pos = 0
    /\ final_transcript = NoText
    /\ result = Pending
    /\ ranges = <<>>
    /\ writeFailed = FALSE
    /\ created = {}
    /\ calls = <<>>
    /\ splitCalls = 0
    /\ caught = FALSE

IdleConv ==
    /\ cpc = "idle"
    /\ audio_bytes = <<>>
    /\ wav_data = NoBytes
    /\ cresult = NoBytes
    /\ tried = <<>>
    /\ cexc = FALSE
    /\ tempCreated = FALSE

NoFiles == [f \in {} |-> OtherFile("raw", 0)]

(***************************************************************************)
(* create_basic_wav on payloads of any length.  A length that the header's *)
(* 32-bit fields may not hold is kept as its base-256 digits, least        *)
(* significant first; the payload itself is left out, the value returned   *)
(* being the header followed by the payload.                               *)
(***************************************************************************)
WideDigits == 5

Pad(digits) == [i \in 1..WideDigits |-> IF i <= Len(digits) THEN digits[i] ELSE 0]

\* a + k for a wide a and a small k
WideAdd(a, k) ==
    LET carry[i \in 0..WideDigits] ==
            IF i = 0 THEN k ELSE (a[i] + carry[i - 1]) \div 256
    IN  [i \in 1..WideDigits |-> (a[i] + carry[i - 1]) % 256]

\* a.to_bytes(width, 'little'); NoBytes stands for the OverflowError Python
\* raises when a does not fit
WideToBytesLE(a, width) ==
    IF \E i \in (width + 1)..WideDigits : a[i] # 0 THEN NoBytes ELSE SubSeq(a, 1, width)

\* variant of ChunkSize that declares the size of the whole file
ChunkSize_WholeFile(len) == WideAdd(len, WavHeaderSize)

\* line 164: 36 + data_length
ChunkSize(len) == WideAdd(len, 36)

\* lines 162-175 for a wide data_length; NoBytes when a to_bytes call raises
BasicWavHeader(len) ==
    LET size == WideToBytesLE(ChunkSize(len), 4)
        dsize == WideToBytesLE(len, 4)
    IN  IF size = NoBytes \/ dsize = NoBytes THEN NoBytes
        ELSE RIFF \o size \o WAVE \o FMT \o ToBytesLE(16, 4) \o ToBytesLE(1, 2)
             \o ToBytesLE(BasicChannels, 2) \o ToBytesLE(BasicSampleRate, 4)
             \o ToBytesLE((BasicSampleRate * BasicChannels * BasicBitsPerSample) \div 8, 4)
             \o ToBytesLE((BasicChannels * BasicBitsPerSample) \div 8, 2)
             \o ToBytesLE(BasicBitsPerSample, 2) \o DATA \o dsize

HeaderSlack == 8

\* 0, 2^16, 2^31 - 36 and 2^32 - 36, each less HeaderSlack
HeaderBases ==
    { Pad(<<>>),
      Pad(<<256 - HeaderSlack, 255>>),
      Pad(<<256 - 36 - HeaderSlack, 255, 255, 127>>),
      Pad(<<256 - 36 - HeaderSlack, 255, 255, 255>>) }

HeaderLengths == {WideAdd(b, k) : b \in HeaderBases, k \in 0..(2 * HeaderSlack)}

\* lines 154-179: the try block
HdrBuild ==
    /\ hpc = "start"
    /\ LET header == BasicWavHeader(data_length)
       IN  IF header = NoBytes
           THEN hpc' = "except" /\ hresult' = hresult
           ELSE hpc' = "done" /\ hresult' = header
    /\ UNCHANGED <<fs, apiKey, orchVars, convVars, extButHdr, data_length>>

\* lines 181-183
HdrExcept ==
    /\ hpc = "except"
    /\ hresult' = NoBytes
    /\ hpc' = "done"
    /\ UNCHANGED <<fs, apiKey, orchVars, convVars, extButHdr, data_length>>

InitHeader ==
    /\ fs = NoFiles
    /\ apiKey = TRUE
    /\ soundfile = FALSE
    /\ IdleOrch
    /\ IdleConv
    /\ hpc = "start"
    /\ data_length \in HeaderLengths
    /\ hresult = PendingBytes
    /\ IdleSil
    /\ IdleMerge
    /\ IdleStt
    /\ IdleReq
    /\ IdleVoice
    /\ IdleHandle
    /\ IdleCard

NextHeader ==
    \/ HdrBuild
    \/ HdrExcept

SpecHeader == InitHeader /\ [][NextHeader]_vars

(***************************************************************************)
(* _create_basic_wav_fallback on payloads of any length.                   *)
(***************************************************************************)
\* a <= k for a wide a and a k below 2^16
WideAtMost(a, k) == (\A i \in 3..WideDigits : a[i] = 0) /\ a[1] + 256 * a[2] <= k

\* variant of TooSmall that also turns away the payloads one byte longer
TooSmall_OneMore(len) == WideAtMost(len, FallbackMinBytes + 1)

\* line 123: len(audio_data) <= 1000
TooSmall(len) == WideAtMost(len, FallbackMinBytes)

\* lines 123-128: the size test, then the call of create_basic_wav
HdrFallback ==
    /\ hpc = "fallback"
    /\ IF TooSmall(data_length)
       THEN hpc' = "done" /\ hresult' = NoBytes
       ELSE hpc' = "start" /\ hresult' = hresult
    /\ UNCHANGED <<fs, apiKey, orchVars, convVars, extButHdr, data_length>>

\* the lengths of HeaderLengths and those around the threshold
FallbackLengths ==
    HeaderLengths
    \cup {WideAdd(Pad(<<(FallbackMinBytes % 256) - HeaderSlack, FallbackMinBytes \div 256>>), k) :
            k \in 0..(2 * HeaderSlack)}

InitFallback ==
    /\ fs = NoFiles
    /\ apiKey = TRUE
    /\ soundfile = FALSE
    /\ IdleOrch
    /\ IdleConv
    /\ hpc = "fallback"
    /\ data_length \in FallbackLengths
    /\ hresult = PendingBytes
    /\ IdleSil
    /\ IdleMerge
    /\ IdleStt
    /\ IdleReq
    /\ IdleVoice
    /\ IdleHandle
    /\ IdleCard

NextFallback ==
    \/ HdrFallback
    \/ HdrBuild
    \/ HdrExcept

SpecFallback == InitFallback /\ [][NextFallback]_vars

(***************************************************************************)
(* detect_silence.  Samples are signed 16-bit integers; a sample stands    *)
(* for the float sample / 32768.  The root mean square is compared with    *)
(* the threshold exactly, on the sum of the squares (kept in two limbs of  *)
(* 20 bits so that it fits the model's integers): the rounding of numpy's  *)
(* float arithmetic moves the rms by less than one part in 10^5 and the    *)
(* buffers of the model keep further than that from every threshold.       *)
(***************************************************************************)
SilenceFile == "temp_silence_check"

SilenceMinBytes == 1000

Limb == 1048576

Occurrences(samples, v) == Cardinality({i \in 1..Len(samples) : samples[i] = v})

\* the sum over the samples of sample^2, as [hi, lo] with value hi * Limb + lo,
\* added up value by value
RECURSIVE SumSquaresOver(_, _)
SumSquaresOver(samples, values) ==
    IF values = {} THEN [hi |-> 0, lo |-> 0]
    ELSE LET v == CHOOSE x \in values : TRUE
             rest == SumSquaresOver(samples, values \ {v})
             k == Occurrences(samples, v)
             lo == rest.lo + ((v * v) % Limb) * k
         IN  [hi |-> rest.hi + ((v * v) \div Limb) * k + lo \div Limb, lo |-> lo % Limb]

SumSquares(samples) ==
    SumSquaresOver(samples, {samples[i] : i \in 1..Len(samples)})

\* sqrt(mean((samples / 32768)^2)) < threshold; the mean of no samples is nan
RmsBelow(samples, t) ==
    LET n == Len(samples)
        sum == SumSquares(samples)
        lhs == sum.hi * (t.den * t.den) + (sum.lo * (t.den * t.den)) \div Limb
        rhs == (t.num * t.num) * n * 1024
    IN  IF n = 0 \/ t.num <= 0 THEN FALSE ELSE lhs < rhs

PyBool(b) == IF b THEN "True" ELSE "False"

\* lines 216-218: sf.read of the scratch file and the comparison; "raised"
\* when the library cannot read the file
SoundfileSilence(bytes, decodes, t) ==
    IF IsPcmWav(bytes) /\ decodes
    THEN PyBool(RmsBelow(SfDecode(bytes), t))
    ELSE "raised"

\* lines 224-237; np.frombuffer raises on a buffer of odd length
_detect_silence_fallback(bytes, t) ==
    IF Len(bytes) < SilenceMinBytes THEN "True"
    ELSE IF Len(bytes) % 2 # 0 THEN "raised"
    ELSE IF Len(Samples16(bytes)) = 0 THEN "True"
    ELSE PyBool(RmsBelow(Samples16(bytes), t))

\* lines 198-201
SilDispatch ==
    /\ dpc = "start"
    /\ dpc' = IF soundfile THEN "sf_write" ELSE "fallback"
    /\ UNCHANGED <<fs, apiKey, orchVars, convVars, extButSil,
                   silence_bytes, threshold, dvalue, dresult, dexc, dtemp>>

\* variant of AfterBody in which the scratch file is removed on success only
AfterBody_CleanupOnSuccessOnly(value) == IF value = "raised" THEN "except" ELSE "sf_finally"

\* lines 212-221: the finally clause runs however the try body ends
AfterBody(value) == "sf_finally"

\* lines 213-214: write the scratch file; open or write may raise
SilWrite ==
    /\ dpc = "sf_write"
    /\ \E outcome \in WriteOutcomes :
         /\ fs' = CASE outcome = "ok" -> WriteFile(fs, SilenceFile, BytesFile(silence_bytes))
                    [] outcome = "write_fails" -> WriteFile(fs, SilenceFile, BytesFile(<<>>))
                    [] OTHER -> fs
         /\ dtemp' = (outcome # "open_fails")
         /\ dvalue' = IF outcome = "ok" THEN dvalue ELSE "raised"
         /\ dpc' = IF outcome = "ok" THEN "sf_read" ELSE AfterBody("raised")
    /\ UNCHANGED <<apiKey, orchVars, convVars, extButSil,
                   silence_bytes, threshold, dresult, dexc>>

\* lines 216-218
SilRead ==
    /\ dpc = "sf_read"
    /\ \E decodes \in BOOLEAN :
         LET value == SoundfileSilence(fs[SilenceFile].data, decodes, threshold)
         IN  /\ dvalue' = value
             /\ dpc' = AfterBody(value)
    /\ UNCHANGED <<fs, apiKey, orchVars, convVars, extButSil,
                   silence_bytes, threshold, dresult, dexc, dtemp>>

\* lines 220-221, then line 199: return the value or let the exception pass
SilFinally ==
    /\ dpc = "sf_finally"
    /\ fs' = _cleanup_temp_file(fs, SilenceFile)
    /\ IF dvalue = "raised"
       THEN dpc' = "except" /\ dresult' = dresult
       ELSE dpc' = "done" /\ dresult' = dvalue
    /\ UNCHANGED <<apiKey, orchVars, convVars, extButSil,
                   silence_bytes, threshold, dvalue, dexc, dtemp>>

\* line 201
SilFallback ==
    /\ dpc = "fallback"
    /\ LET value == _detect_silence_fallback(silence_bytes, threshold)
       IN  /\ dvalue' = value
           /\ IF value = "raised"
              THEN dpc' = "except" /\ dresult' = dresult
              ELSE dpc' = "done" /\ dresult' = value
    /\ UNCHANGED <<fs, apiKey, orchVars, convVars, extButSil,
                   silence_bytes, threshold, dexc, dtemp>>

\* lines 203-206
SilExcept ==
    /\ dpc = "except"
    /\ dexc' = TRUE
    /\ dresult' = "False"
    /\ dpc' = "done"
    /\ UNCHANGED <<fs, apiKey, orchVars, convVars, extButSil,
                   silence_bytes, threshold, dvalue, dtemp>>

(***************************************************************************)
(* Inputs of detect_silence: raw sample buffers that repeat one 16-bit     *)
(* sample, and WAV containers, of lengths around the size test of line 226.*)
(***************************************************************************)
SilenceSlack == 2

SilenceLengths ==
    {0, 2} \cup ((SilenceMinBytes - SilenceSlack)..(SilenceMinBytes + SilenceSlack + 1))

ZeroSample == <<0, 0>>

\* 3277 / 32768, just above the default threshold
QuietSample == <<205, 12>>

\* -32768 / 32768
FullScaleSample == <<0, 128>>

RawBuffer(sample, len) == [i \in 1..len |-> sample[2 - (i % 2)]]

ZeroWav(len) == Slice(WavHeader(PayloadLength(len), 44100, 1, 16) \o Repeat(0, len), 0, len)

SilenceBuffers ==
    {RawBuffer(sample, len) : sample \in {ZeroSample, QuietSample, FullScaleSample},
                              len \in SilenceLengths}
    \cup {ZeroWav(len) : len \in SilenceLengths}
    \cup {Recording("wav16", len) : len \in SilenceLengths}

Thresholds ==
    { [num |-> -1, den |-> 10], [num |-> 0, den |-> 1], [num |-> 1, den |-> 10],
      [num |-> 1, den |-> 2], [num |-> 1, den |-> 1], [num |-> 2, den |-> 1] }

InitSilence ==
    /\ fs = NoFiles
    /\ apiKey = TRUE
    /\ soundfile \in BOOLEAN
    /\ IdleOrch
    /\ IdleConv
    /\ IdleHdr
    /\ dpc = "start"
    /\ silence_bytes \in SilenceBuffers
    /\ threshold \in Thresholds
    /\ dvalue = "none"
    /\ dresult = "pending"
    /\ dexc = FALSE
    /\ dtemp = FALSE
    /\ IdleMerge
    /\ IdleStt
    /\ IdleReq
    /\ IdleVoice
    /\ IdleHandle
    /\ IdleCard

NextSilence ==
    \/ SilDispatch
    \/ SilWrite
    \/ SilRead
    \/ SilFinally
    \/ SilFallback
    \/ SilExcept

SpecSilence == InitSilence /\ [][NextSilence]_vars

(***************************************************************************)
(* merge_audio.  The input files hold bytes; wave.open and sf.read accept  *)
(* the PCM WAV containers among them.  The output file is shown with the   *)
(* header wave.close leaves in it.                                         *)
(***************************************************************************)
OutputFile == "final_output.wav"

HasBytes(fsys, name) == Exists(fsys, name) /\ fsys[name].kind = "bytes"

\* wave.open(name, 'rb') succeeds
WaveReadable(fsys, name) == HasBytes(fsys, name) /\ IsPcmWav(fsys[name].data)

\* what the wave writer has put in the output file once it is closed
WaveWritten(m) == BytesFile(WavHeader(Len(m.data), m.rate, m.channels, m.bits) \o m.data)

\* variant of OnMergeRaise in which the inputs are cleaned up all the same
OnMergeRaise_CleansUp == "cleanup"

\* lines 318-331: an exception in the merge step skips the cleanup loop
OnMergeRaise == "except"

\* lines 314-322
MergeStart ==
    /\ mpc = "start"
    /\ mpc' = IF audio_files = <<>> THEN "done"
              ELSE IF soundfile THEN "sf_loop" ELSE "wave_open"
    /\ mg' = [mg EXCEPT !.i = 1]
    /\ UNCHANGED <<fs, apiKey, orchVars, convVars, extButMerge, audio_files, mexc, mfs0>>

\* line 355: wave.open(output_filename, 'wb') creates or truncates the file
WaveOpenOutput ==
    /\ mpc = "wave_open"
    /\ \E ok \in BOOLEAN :
         IF ok
         THEN /\ fs' = WriteFile(fs, OutputFile, BytesFile(<<>>))
              /\ mpc' = "wave_config"
              /\ mg' = mg
         ELSE /\ fs' = fs
              /\ mpc' = OnMergeRaise
              /\ mg' = [mg EXCEPT !.raised = TRUE, !.ioFailed = TRUE]
    /\ UNCHANGED <<apiKey, orchVars, convVars, extButMerge, audio_files, mexc, mfs0>>

\* lines 357-360: the output takes its format from audio_files[0]; when that
\* file cannot be opened the with block is left, and closing the writer,
\* which has no format yet, leaves the output file empty
WaveConfigure ==
    /\ mpc = "wave_config"
    /\ LET first == audio_files[1]
       IN  IF WaveReadable(fs, first)
           THEN /\ mg' = [mg EXCEPT !.channels = FromBytesLE(Slice(fs[first].data, 22, 24)),
                                     !.bits = FromBytesLE(Slice(fs[first].data, 34, 36)),
                                     !.rate = FromBytesLE(Slice(fs[first].data, 24, 28))]
                /\ mpc' = "wave_loop"
           ELSE /\ mg' = [mg EXCEPT !.raised = TRUE]
                /\ mpc' = OnMergeRaise
    /\ UNCHANGED <<fs, apiKey, orchVars, convVars, extButMerge, audio_files, mexc, mfs0>>

\* lines 363-368: one iteration; a missing file is skipped, a file wave.open
\* rejects ends the with block, which closes the output
WaveAppend ==
    /\ mpc = "wave_loop"
    /\ mg.i <= Len(audio_files)
    /\ LET file_path == audio_files[mg.i]
       IN  IF ~Exists(fs, file_path)
           THEN /\ mg' = [mg EXCEPT !.i = @ + 1]
                /\ mpc' = mpc
                /\ fs' = fs
           ELSE IF WaveReadable(fs, file_path)
           THEN /\ mg' = [mg EXCEPT !.i = @ + 1, !.data = @ \o WavPayload(fs[file_path].data)]
                /\ mpc' = mpc
                /\ fs' = WriteFile(fs, OutputFile, WaveWritten(mg'))
           ELSE /\ mg' = [mg EXCEPT !.raised = TRUE]
                /\ mpc' = OnMergeRaise
                /\ fs' = WriteFile(fs, OutputFile, WaveWritten(mg))
    /\ UNCHANGED <<apiKey, orchVars, convVars, extButMerge, audio_files, mexc, mfs0>>

\* line 355, end of the with block: the writer is closed
WaveClose ==
    /\ mpc = "wave_loop"
    /\ mg.i > Len(audio_files)
    /\ fs' = WriteFile(fs, OutputFile, WaveWritten(mg))
    /\ mpc' = "cleanup"
    /\ UNCHANGED <<apiKey, orchVars, convVars, extButMerge, audio_files, mg, mexc, mfs0>>

\* lines 339-346: one iteration; sf.read raises on a file it cannot decode
SfCollect ==
    /\ mpc = "sf_loop"
    /\ mg.i <= Len(audio_files)
    /\ LET file_path == audio_files[mg.i]
       IN  IF ~Exists(fs, file_path)
           THEN mg' = [mg EXCEPT !.i = @ + 1] /\ mpc' = mpc
           ELSE \E decodes \in BOOLEAN :
                  IF WaveReadable(fs, file_path) /\ decodes
                  THEN /\ mg' = [mg EXCEPT
                                   !.i = @ + 1,
                                   !.rate = IF @ = 0 THEN FromBytesLE(Slice(fs[file_path].data, 24, 28))
                                            ELSE @,
                                   !.data = @ \o SfDecode(fs[file_path].data),
                                   !.shapes = Append(@, FromBytesLE(Slice(fs[file_path].data, 22, 24)))]
                       /\ mpc' = mpc
                  ELSE /\ mg' = [mg EXCEPT !.raised = TRUE,
                                            !.ioFailed = WaveReadable(fs, file_path)]
                       /\ mpc' = OnMergeRaise
    /\ UNCHANGED <<fs, apiKey, orchVars, convVars, extButMerge, audio_files, mexc, mfs0>>

\* lines 348-350: np.concatenate raises when the arrays differ in channel
\* count; sf.write writes 16-bit PCM at the first file's sample rate
SfWriteOutput ==
    /\ mpc = "sf_loop"
    /\ mg.i > Len(audio_files)
    /\ IF mg.shapes # <<>> /\ mg.rate # 0
       THEN IF \E j \in 1..Len(mg.shapes) : mg.shapes[j] # mg.shapes[1]
            THEN fs' = fs /\ mg' = [mg EXCEPT !.raised = TRUE] /\ mpc' = OnMergeRaise
            ELSE \E ok \in BOOLEAN :
                   IF ok
                   THEN /\ fs' = WriteFile(fs, OutputFile,
                                    BytesFile(WavHeader(2 * Len(mg.data), mg.rate, mg.shapes[1], 16)
                                              \o SfEncode16(mg.data)))
                        /\ mg' = mg
                        /\ mpc' = "cleanup"
                   ELSE /\ fs' = fs
                        /\ mg' = [mg EXCEPT !.raised = TRUE, !.ioFailed = TRUE]
                        /\ mpc' = OnMergeRaise
       ELSE fs' = fs /\ mg' = mg /\ mpc' = "cleanup"
    /\ UNCHANGED <<apiKey, orchVars, convVars, extButMerge, audio_files, mexc, mfs0>>

\* the for loop of lines 327-328 over the first k files
RECURSIVE CleanupAll(_, _, _)
CleanupAll(fsys, files, k) ==
    IF k = 0 THEN fsys
    ELSE _cleanup_temp_file(CleanupAll(fsys, files, k - 1), files[k])

\* lines 324-328
MergeCleanup ==
    /\ mpc = "cleanup"
    /\ fs' = CleanupAll(fs, audio_files, Len(audio_files))
    /\ mpc' = "done"
    /\ UNCHANGED <<apiKey, orchVars, convVars, extButMerge, audio_files, mg, mexc, mfs0>>

\* lines 330-331
MergeExcept ==
    /\ mpc = "except"
    /\ mexc' = TRUE
    /\ mpc' = "done"
    /\ UNCHANGED <<fs, apiKey, orchVars, convVars, extButMerge, audio_files, mg, mfs0>>

(***************************************************************************)
(* Inputs of merge_audio: up to MaxMergeFiles file names, each missing, a  *)
(* mono 16-bit recording of its own, a stereo 8-bit recording or a file    *)
(* that is no WAV container, merged in any order.                          *)
(***************************************************************************)
MaxMergeFiles == 3

PartName(i) == "part_" \o ToString(i) \o ".wav"

\* two frames, the samples i and i + 256
Tone(i) == WavHeader(4, 8000, 1, 16) \o <<i, 0, i, 1>>

Stereo8 == WavHeader(4, 44100, 2, 8) \o <<130, 131, 132, 133>>

Garbage == <<1, 2, 3>>

PartContents(i) == {Tone(i), Stereo8, Garbage}

\* the file systems that hold some of the parts
MergeFileSystems ==
    UNION { { [name \in {PartName(i) : i \in present} |->
                 BytesFile(pick[CHOOSE i \in present : PartName(i) = name])]
              : pick \in [present -> UNION {PartContents(i) : i \in present}] }
            : present \in SUBSET (1..MaxMergeFiles) }

\* the lists of distinct part names
MergeLists ==
    UNION { { [k \in 1..n |-> PartName(order[k])]
              : order \in {o \in [1..n -> 1..MaxMergeFiles] :
                             \A a, b \in 1..n : a # b => o[a] # o[b]} }
            : n \in 0..MaxMergeFiles }

InitMerge ==
    /\ fs \in MergeFileSystems
    /\ apiKey = TRUE
    /\ soundfile \in BOOLEAN
    /\ IdleOrch
    /\ IdleConv
    /\ IdleHdr
    /\ IdleSil
    /\ mpc = "start"
    /\ audio_files \in MergeLists
    /\ mg = NoMerge
    /\ mexc = FALSE
    /\ mfs0 = fs
    /\ IdleStt
    /\ IdleReq
    /\ IdleVoice
    /\ IdleHandle
    /\ IdleCard

NextMerge ==
    \/ MergeStart
    \/ WaveOpenOutput
    \/ WaveConfigure
    \/ WaveAppend
    \/ WaveClose
    \/ SfCollect
    \/ SfWriteOutput
    \/ MergeCleanup
    \/ MergeExcept

SpecMerge == InitMerge /\ [][NextMerge]_vars

(***************************************************************************)
(* chat.py _generate_audio_response, once per voice request: the files     *)
(* text_to_speech wrote are merged and final_output.wav is played if it    *)
(* exists.  Nothing in the program removes final_output.wav.               *)
(***************************************************************************)
MaxVoiceRequests == 2

MaxTtsFiles == 2

\* api_utils.py line 201: a name no earlier call has used
TtsName(request, index) ==
    "tts_chunk_" \o ToString(index) \o "_" \o ToString(request) \o ".wav"

\* api_utils.py lines 200-203: response.content as the service sent it, a WAV
\* recording of this text or bytes in another format
TtsContents(request, index) == {Tone(MaxTtsFiles * request + index), Garbage}

NoPlayback == [request |-> 0, kind |-> "none", stale |-> FALSE]

\* line 546: os.path.exists("final_output.wav"); the entry notes whether the
\* file is the one that was there when merge_audio was called
Playback(request, fsys, before) ==
    IF Exists(fsys, OutputFile)
    THEN [request |-> request, kind |-> "audio",
          stale |-> Exists(before, OutputFile) /\ fsys[OutputFile] = before[OutputFile]]
    ELSE [request |-> request, kind |-> "warning", stale |-> FALSE]

\* lines 543-545 and 551: text_to_speech returns the files it wrote; an empty
\* list ends the request with st.info, any other list is given to merge_audio
VoiceSynthesize ==
    /\ vpc = "ready"
    /\ vreq < MaxVoiceRequests
    /\ vreq' = vreq + 1
    /\ \E n \in 0..MaxTtsFiles :
         \E content \in [1..n -> UNION {TtsContents(vreq', i) : i \in 1..n}] :
           /\ \A i \in 1..n : content[i] \in TtsContents(vreq', i)
           /\ fs' = [name \in DOMAIN fs \cup {TtsName(vreq', i) : i \in 1..n} |->
                       IF \E i \in 1..n : name = TtsName(vreq', i)
                       THEN BytesFile(content[CHOOSE i \in 1..n : name = TtsName(vreq', i)])
                       ELSE fs[name]]
           /\ IF n = 0
              THEN /\ played' = Append(played, [NoPlayback EXCEPT !.request = vreq',
                                                                  !.kind = "info"])
                   /\ vpc' = "ready"
                   /\ UNCHANGED mergeVars
              ELSE /\ audio_files' = [i \in 1..n |-> TtsName(vreq', i)]
                   /\ mpc' = "start"
                   /\ mg' = NoMerge
                   /\ mexc' = FALSE
                   /\ mfs0' = fs'
                   /\ played' = played
                   /\ vpc' = "merging"
    /\ UNCHANGED <<apiKey, orchVars, convVars, hdrVars, silVars, sttVars, reqVars, handleVars, cardVars>>

\* lines 546-549, after merge_audio has returned
VoicePlay ==
    /\ vpc = "merging"
    /\ mpc = "done"
    /\ played' = Append(played, Playback(vreq, fs, mfs0))
    /\ vpc' = "ready"
    /\ UNCHANGED <<fs, apiKey, orchVars, convVars, vreq,
                   hdrVars, silVars, mergeVars, sttVars, reqVars, handleVars, cardVars>>

InitVoice ==
    /\ fs = <<>>
    /\ apiKey = TRUE
    /\ soundfile \in BOOLEAN
    /\ IdleOrch
    /\ IdleConv
    /\ IdleHdr
    /\ IdleSil
    /\ IdleMerge
    /\ IdleStt
    /\ IdleReq
    /\ IdleHandle
    /\ IdleCard
    /\ vpc = "ready"
    /\ vreq = 0
    /\ played = <<>>

NextVoice ==
    \/ VoiceSynthesize
    \/ MergeStart
    \/ WaveOpenOutput
    \/ WaveConfigure
    \/ WaveAppend
    \/ WaveClose
    \/ SfCollect
    \/ SfWriteOutput
    \/ MergeCleanup
    \/ MergeExcept
    \/ VoicePlay

SpecVoice == InitVoice /\ [][NextVoice]_vars

(***************************************************************************)
(* api_utils.audio_to_text, step by step.                                  *)
(***************************************************************************)
\* lines 49-52
SttCheckKey ==
    /\ tpc = "start"
    /\ IF ~apiKey
       THEN tpc' = "done" /\ tresult' = NoText
       ELSE tpc' = "check_file" /\ tresult' = tresult
    /\ UNCHANGED <<fs, apiKey, orchVars, convVars, extButStt, tpath, tresp, posts>>

\* lines 54-56
SttCheckFile ==
    /\ tpc = "check_file"
    /\ IF ~AudioFileUsable(fs, tpath)
       THEN tpc' = "done" /\ tresult' = NoText
       ELSE tpc' = "post" /\ tresult' = tresult
    /\ UNCHANGED <<fs, apiKey, orchVars, convVars, extButStt, tpath, tresp, posts>>

\* lines 58-79: open the file, which may raise, then requests.post
SttPost ==
    /\ tpc = "post"
    /\ \/ /\ tpc' = "except"
          /\ UNCHANGED <<tresp, posts>>
       \/ \E resp \in Responses :
            /\ posts' = posts + 1
            /\ tresp' = resp
            /\ tpc' = IF resp.kind = "neterror" THEN "except" ELSE "respond"
    /\ UNCHANGED <<fs, apiKey, orchVars, convVars, extButStt, tpath, tresult>>

\* lines 81-85: response.json() and the key lookups may raise
SttRespond ==
    /\ tpc = "respond"
    /\ IF tresp.status = 200
       THEN IF tresp.kind \in {"badjson", "notobject"}
            THEN tpc' = "except" /\ tresult' = tresult
            ELSE tpc' = "done" /\ tresult' = _extract_transcript_from_response(tresp.payload)
       ELSE tpc' = "done" /\ tresult' = NoText
    /\ UNCHANGED <<fs, apiKey, orchVars, convVars, extButStt, tpath, tresp, posts>>

\* lines 86-87
SttExcept ==
    /\ tpc = "except"
    /\ tresult' = NoText
    /\ tpc' = "done"
    /\ UNCHANGED <<fs, apiKey, orchVars, convVars, extButStt, tpath, tresp, posts>>

NoResponse == Response("none", 0, EmptyPayload)

SttPaths == {InputFile, ChunkName(1), ChunkName(2)}

\* the file named by the path: an empty file, a file that is no WAV
\* container, or a WAV file
SttContents ==
    {OtherFile("raw", 0), OtherFile("raw", NonWavSize), WavFile(44100, 1, 2, 0, MaxRestFrames)}

InitStt ==
    /\ \E present \in BOOLEAN : \E content \in SttContents : \E name \in SttPaths :
         fs = IF present THEN [f \in {name} |-> content] ELSE NoFiles
    /\ apiKey \in BOOLEAN
    /\ soundfile = FALSE
    /\ IdleOrch
    /\ IdleConv
    /\ IdleHdr
    /\ IdleSil
    /\ IdleMerge
    /\ tpc = "start"
    /\ tpath \in SttPaths
    /\ tresp = NoResponse
    /\ tresult = Pending
    /\ posts = 0
    /\ IdleReq
    /\ IdleVoice
    /\ IdleHandle
    /\ IdleCard

NextStt ==
    \/ SttCheckKey
    \/ SttCheckFile
    \/ SttPost
    \/ SttRespond
    \/ SttExcept

SpecStt == InitStt /\ [][NextStt]_vars

(***************************************************************************)
(* chat._process_audio_to_text, one call per request.  Streamlit runs the  *)
(* script of every session in a thread of one server process, so the calls *)
(* of two sessions share the working directory and interleave at every     *)
(* file operation.  Each call has its own locals, rq[r]; audio is kept by  *)
(* its description (container, rate, frames, size), as the files are.      *)
(***************************************************************************)
Requests == {1, 2}

\* None, as the value of a local that holds audio
NoAudio == OtherFile("none", 0)

NoCall ==
    [pc |-> "idle", audio_bytes |-> NoAudio, wav_data |-> NoAudio, opened |-> NoAudio,
     sp |-> NoSplit, chunks |-> <<>>, pos |-> 0, final_transcript |-> NoText,
     result |-> Pending, raised |-> FALSE, life |-> <<>>]

Running(r) == rq[r].pc \notin {"idle", "done"}

\* not wav_audio: None or an empty bytes object
Falsy(audio) == audio.kind = "none" \/ audio.size = 0

\* variant of ScratchPath with a path of its own for every call
ScratchPath_PerCall(r, name) == name \o "." \o ToString(r)

\* audio_utils.py line 56 and chat.py line 431: the paths are literals, the
\* same for every call
ScratchPath(r, name) == name

\* audio_utils.py line 56
temp_input(r) == ScratchPath(r, TempFile)

\* chat.py line 431
save_path(r) == ScratchPath(r, InputFile)

\* the history of writers after call r wrote or removed files
WrittenBy(r, before, after) ==
    [f \in DOMAIN after |->
        IF f \in DOMAIN before /\ before[f] = after[f] /\ f \in DOMAIN writer
        THEN writer[f] ELSE r]

\* the history of foreign accesses after call r did op on the file name
Accessed(r, op, name) ==
    IF Exists(fs, name) /\ writer[name] # r
    THEN foreign \cup {[op |-> op, file |-> name]}
    ELSE foreign

\* chat.py line 384 and audio_utils.py lines 45-54: the call starts and
\* convert_webm_to_wav tests the size of the recording
RqStart(r) ==
    /\ rq[r].pc = "idle"
    /\ serial => \A o \in Requests : ~Running(o)
    /\ overlap' = (overlap \/ \E o \in Requests \ {r} : Running(o))
    /\ rq' = [rq EXCEPT ![r].pc =
                IF rq[r].audio_bytes.size = 0 \/ rq[r].audio_bytes.size < MinAudioBytes
                THEN "no_audio" ELSE "conv_write"]
    /\ UNCHANGED <<fs, apiKey, orchVars, convVars, extButReq, writer, foreign, serial>>

\* audio_utils.py lines 60-62 and 81-84: write the scratch file; open or
\* write may raise, and the except clause then makes the result None
RqConvWrite(r) ==
    /\ rq[r].pc = "conv_write"
    /\ \E outcome \in WriteOutcomes :
         /\ fs' = CASE outcome = "ok" -> WriteFile(fs, temp_input(r), rq[r].audio_bytes)
                    [] outcome = "write_fails" ->
                         WriteFile(fs, temp_input(r), OtherFile("partial", 0))
                    [] OTHER -> fs
         /\ writer' = IF outcome = "open_fails" THEN writer
                      ELSE [f \in DOMAIN fs' |-> IF f = temp_input(r) THEN r ELSE writer[f]]
         /\ rq' = [rq EXCEPT ![r].pc = IF outcome = "ok" THEN "conv_strategies"
                                       ELSE "conv_finally",
                             ![r].wav_data = NoAudio]
    /\ UNCHANGED <<apiKey, orchVars, convVars, extButReq, foreign, overlap, serial>>

\* audio_utils.py lines 96-103: sf.read of the scratch file and sf.write of
\* 16-bit PCM; any failure, a missing file included, gives None
RqSoundfile(available, fsys, input_path, decodes) ==
    IF available /\ Exists(fsys, input_path) /\ fsys[input_path].kind = "wav" /\ decodes
    THEN LET read == fsys[input_path]
         IN  WavFile(read.rate, read.channels, 2, read.from, read.to)
    ELSE NoAudio

\* audio_utils.py lines 113-116
RqPassthrough(audio) == IF audio.kind = "wav" THEN audio ELSE NoAudio

\* audio_utils.py lines 124-128 and 143-183: the bytes become the payload of
\* a mono 16-bit file
RqFallback(audio) ==
    IF audio.size <= FallbackMinBytes THEN NoAudio
    ELSE [WavFile(BasicSampleRate, BasicChannels, BasicBitsPerSample \div 8,
                  0, audio.size \div 2)
          EXCEPT !.size = WavHeaderSize + audio.size]

\* audio_utils.py lines 65-79: the strategies in order; only the first
\* reads the disk
RqConvStrategies(r) ==
    /\ rq[r].pc = "conv_strategies"
    /\ \E decodes \in BOOLEAN :
         LET first == RqSoundfile(soundfile, fs, temp_input(r), decodes)
             second == IF Falsy(first) THEN RqPassthrough(rq[r].audio_bytes) ELSE first
             third == IF Falsy(second) THEN RqFallback(rq[r].audio_bytes) ELSE second
         IN  /\ rq' = [rq EXCEPT ![r].pc = "conv_finally",
                                 ![r].wav_data = IF Falsy(third) THEN NoAudio ELSE third]
             /\ foreign' = IF soundfile THEN Accessed(r, "read", temp_input(r)) ELSE foreign
    /\ UNCHANGED <<fs, apiKey, orchVars, convVars, extButReq, writer, overlap, serial>>

\* the history of call r's operations on its normalized file
Did(r, op) == Append(rq[r].life, op)

\* audio_utils.py lines 85-86 and chat.py lines 426-429: the finally clause
\* removes the scratch file, convert_webm_to_wav returns, and the caller
\* tests the value
RqConvFinally(r) ==
    /\ rq[r].pc = "conv_finally"
    /\ fs' = _cleanup_temp_file(fs, temp_input(r))
    /\ writer' = [f \in DOMAIN fs' |-> writer[f]]
    /\ foreign' = Accessed(r, "delete", temp_input(r))
    /\ rq' = [rq EXCEPT ![r].pc = IF Falsy(rq[r].wav_data) THEN "no_audio" ELSE "save"]
    /\ UNCHANGED <<apiKey, orchVars, convVars, extButReq, overlap, serial>>

\* chat.py lines 426-429: return None, before the try block
RqNoAudio(r) ==
    /\ rq[r].pc = "no_audio"
    /\ rq' = [rq EXCEPT ![r].pc = "done", ![r].result = NoText]
    /\ UNCHANGED <<fs, apiKey, orchVars, convVars, extButReq, writer, foreign, overlap,
                   serial>>

\* variant of OnExit in which the early returns skip the finally clause
OnExit_EarlyReturnSkipsFinally(path) == IF path = "too_small" THEN "done" ELSE "finally"

\* chat.py lines 432 and 451: every exit of the try block, by return or by
\* an exception, runs the finally clause
OnExit(path) == "finally"

\* chat.py lines 433-434: save the normalized audio; open or write may raise
RqSave(r) ==
    /\ rq[r].pc = "save"
    /\ \E outcome \in WriteOutcomes :
         /\ fs' = CASE outcome = "ok" -> WriteFile(fs, save_path(r), rq[r].wav_data)
                    [] outcome = "write_fails" ->
                         WriteFile(fs, save_path(r), OtherFile("partial", 0))
                    [] OTHER -> fs
         /\ writer' = IF outcome = "open_fails" THEN writer
                      ELSE [f \in DOMAIN fs' |-> IF f = save_path(r) THEN r ELSE writer[f]]
         /\ rq' = [rq EXCEPT ![r].pc = IF outcome = "ok" THEN "size_check"
                                       ELSE OnExit("raised"),
                             ![r].raised = (outcome # "ok"),
                             ![r].life = IF outcome = "open_fails" THEN rq[r].life
                                         ELSE Did(r, "create")]
    /\ UNCHANGED <<apiKey, orchVars, convVars, extButReq, foreign, overlap, serial>>

\* chat.py line 437
SavedFileUsable(fsys, path) ==
    Exists(fsys, path) /\ GetSize(fsys, path) > 1000

\* chat.py lines 437-439
RqSizeCheck(r) ==
    /\ rq[r].pc = "size_check"
    /\ rq' = IF SavedFileUsable(fs, save_path(r))
             THEN [rq EXCEPT ![r].pc = "validate"]
             ELSE [rq EXCEPT ![r].pc = OnExit("too_small"), ![r].result = NoText]
    /\ UNCHANGED <<fs, apiKey, orchVars, convVars, extButReq, writer, foreign, overlap,
                   serial>>

\* audio_utils.py lines 381-386 and 406-409: process_long_audio imports,
\* which may raise, and validates its input; chat.py lines 446-449 then
\* reject the empty transcript
RqValidate(r) ==
    /\ rq[r].pc = "validate"
    /\ \E ok \in BOOLEAN :
         rq' = IF ok /\ InputUsable(fs, save_path(r))
               THEN [rq EXCEPT ![r].pc = "split"]
               ELSE [rq EXCEPT ![r].pc = OnExit("empty"), ![r].result = NoText]
    /\ UNCHANGED <<fs, apiKey, orchVars, convVars, extButReq, writer, foreign, overlap,
                   serial>>

\* what the handle opened at audio_utils.py line 251 yields at line 288: the
\* frames of the file as it was opened or, after another call rewrote the
\* file in place, the frames that are there now; the format is the one read
\* from the header at line 251
HandleViews(r) ==
    {rq[r].opened}
    \cup IF Exists(fs, save_path(r)) /\ fs[save_path(r)] # rq[r].opened
         THEN {[rq[r].opened EXCEPT !.from = fs[save_path(r)].from, !.to = fs[save_path(r)].to]}
         ELSE {}

\* audio_utils.py lines 251-260 and 274-278, 390: open the saved file and
\* read its header; on any error split_audio returns no chunks
RqSplitOpen(r) ==
    /\ rq[r].pc = "split"
    /\ LET readable == Exists(fs, save_path(r)) /\ fs[save_path(r)].kind = "wav"
                       /\ fs[save_path(r)].rate # 0
           audio == fs[save_path(r)]
       IN  rq' = IF readable
                 THEN [rq EXCEPT ![r].pc = "split_loop",
                                 ![r].opened = audio,
                                 ![r].chunks = <<>>,
                                 ![r].sp = [frame_rate |-> audio.rate,
                                            num_frames |-> NFrames(audio),
                                            total_duration |->
                                                FloatDiv(NFrames(audio), audio.rate),
                                            start_time |-> 0, index |-> 1],
                                 ![r].life = Did(r, "read")]
                 ELSE [rq EXCEPT ![r].pc = "whole", ![r].chunks = <<>>,
                                 ![r].life = IF Exists(fs, save_path(r)) THEN Did(r, "read")
                                             ELSE rq[r].life]
    /\ foreign' = Accessed(r, "read", save_path(r))
    /\ UNCHANGED <<fs, apiKey, orchVars, convVars, extButReq, writer, overlap, serial>>

\* audio_utils.py lines 262-272: one iteration of the while loop
RqSplitIter(r) ==
    /\ rq[r].pc = "split_loop"
    /\ SplitContinues(rq[r].sp.start_time, rq[r].sp.total_duration)
    /\ \E outcome \in ChunkOutcomes : \E audio \in HandleViews(r) :
         LET end_time == EndTime(rq[r].sp.start_time, ChunkLength, rq[r].sp.total_duration)
             made == _create_audio_chunk(fs, audio, PyInt(rq[r].sp.start_time), end_time,
                                         rq[r].sp.frame_rate, rq[r].sp.index, outcome)
         IN  /\ fs' = made.fs
             /\ writer' = WrittenBy(r, fs, made.fs)
             /\ rq' = [rq EXCEPT ![r].chunks = IF made.name # NoName
                                               THEN Append(rq[r].chunks, made.name)
                                               ELSE rq[r].chunks,
                                 ![r].sp.start_time = @ + ChunkLength,
                                 ![r].sp.index = @ + 1]
    /\ UNCHANGED <<apiKey, orchVars, convVars, extButReq, foreign, overlap, serial>>

\* the answers of the transcription service to a call: an error, a text of
\* one character, a text of several
RqResponses ==
    {resp \in Responses :
        /\ resp.kind = "http"
        /\ \/ resp.status # 200
           \/ resp.payload.text = JStr(<<" ", "a", "\n">>)
           \/ resp.payload.transcript = JStr(<<"a", " ", "b", " ">>)}

\* the answers when two calls run at once: an error and a text
RaceResponses == {resp \in RqResponses : resp.payload.text = Absent}

CallResponses == IF serial THEN RqResponses ELSE RaceResponses

\* chat.py lines 446-449: the value returned for a transcript
ChatResult(transcript) ==
    IF transcript = NoText \/ Len(Strip(transcript)) < 2 THEN NoText ELSE transcript

\* audio_utils.py lines 262, 278, 390 and 396: the loop ends, split_audio
\* returns, and process_long_audio looks at the list
RqSplitReturn(r) ==
    /\ rq[r].pc = "split_loop"
    /\ ~SplitContinues(rq[r].sp.start_time, rq[r].sp.total_duration)
    /\ rq' = [rq EXCEPT ![r].pc = IF rq[r].chunks = <<>> THEN "whole" ELSE "loop",
                        ![r].final_transcript = NoText,
                        ![r].pos = 1]
    /\ UNCHANGED <<fs, apiKey, orchVars, convVars, extButReq, writer, foreign, overlap,
                   serial>>

\* audio_utils.py lines 391-393 and chat.py lines 446-449: transcribe the
\* whole saved file
RqWholeFile(r) ==
    /\ rq[r].pc = "whole"
    /\ \E resp \in CallResponses :
         LET transcript == audio_to_text(apiKey, fs, save_path(r), resp)
         IN  rq' = [rq EXCEPT ![r].pc = OnExit("returned"),
                              ![r].result = ChatResult(WholeFileResult(transcript)),
                              ![r].life = IF AudioFileUsable(fs, save_path(r))
                                          THEN Did(r, "read") ELSE rq[r].life]
    /\ foreign' = IF apiKey /\ AudioFileUsable(fs, save_path(r))
                  THEN Accessed(r, "transcribe", save_path(r)) ELSE foreign
    /\ UNCHANGED <<fs, apiKey, orchVars, convVars, extButReq, writer, overlap, serial>>

\* audio_utils.py lines 397-401: the transcription call of one chunk
RqTranscribeChunk(r) ==
    /\ rq[r].pc = "loop"
    /\ rq[r].pos <= Len(rq[r].chunks)
    /\ \E resp \in CallResponses :
         LET transcript == audio_to_text(apiKey, fs, rq[r].chunks[rq[r].pos], resp)
         IN  rq' = [rq EXCEPT ![r].pc = "cleanup",
                              ![r].final_transcript = AddTranscript(@, transcript)]
    /\ foreign' = IF apiKey /\ AudioFileUsable(fs, rq[r].chunks[rq[r].pos])
                  THEN Accessed(r, "transcribe", rq[r].chunks[rq[r].pos]) ELSE foreign
    /\ UNCHANGED <<fs, apiKey, orchVars, convVars, extButReq, writer, overlap, serial>>

\* audio_utils.py line 402
RqCleanupChunk(r) ==
    /\ rq[r].pc = "cleanup"
    /\ fs' = _cleanup_temp_file(fs, rq[r].chunks[rq[r].pos])
    /\ writer' = [f \in DOMAIN fs' |-> writer[f]]
    /\ foreign' = Accessed(r, "delete", rq[r].chunks[rq[r].pos])
    /\ rq' = [rq EXCEPT ![r].pc = "loop", ![r].pos = @ + 1]
    /\ UNCHANGED <<apiKey, orchVars, convVars, extButReq, overlap, serial>>

\* audio_utils.py line 404 and chat.py lines 446-449
RqReturn(r) ==
    /\ rq[r].pc = "loop"
    /\ rq[r].pos > Len(rq[r].chunks)
    /\ rq' = [rq EXCEPT ![r].pc = OnExit("returned"),
                        ![r].result = ChatResult(Strip(rq[r].final_transcript))]
    /\ UNCHANGED <<fs, apiKey, orchVars, convVars, extButReq, writer, foreign, overlap,
                   serial>>

\* chat.py lines 451-457: remove the saved file if it exists, then return
\* or let the exception go on
RqFinally(r) ==
    /\ rq[r].pc = "finally"
    /\ fs' = IF Exists(fs, save_path(r)) THEN RemoveFile(fs, save_path(r)) ELSE fs
    /\ writer' = [f \in DOMAIN fs' |-> writer[f]]
    /\ foreign' = Accessed(r, "delete", save_path(r))
    /\ rq' = [rq EXCEPT ![r].pc = "done",
                        ![r].life = IF Exists(fs, save_path(r)) THEN Did(r, "delete")
                                    ELSE rq[r].life]
    /\ UNCHANGED <<apiKey, orchVars, convVars, extButReq, overlap, serial>>

(***************************************************************************)
(* Inputs of the calls: recordings in a container no strategy reads, one   *)
(* convert_webm_to_wav rejects for its size, one too short for the         *)
(* fallback and one the fallback wraps into a single chunk, and            *)
(* WAV recordings, one that after saving is below the size the caller      *)
(* accepts and one two chunks long.                                        *)
(***************************************************************************)
RqRate == 16

RqRecordings ==
    { OtherFile("webm", MinAudioBytes - 1),
      OtherFile("webm", FallbackMinBytes),
      OtherFile("webm", NonWavSize),
      WavFile(RqRate, 1, 2, 0, MinAudioBytes),
      WavFile(RqRate, 1, 2, 0, ChunkLength * RqRate + MaxRestFrames) }

\* the recordings of two calls that run at once: one no strategy reads,
\* which the fallback wraps, and a WAV recording one chunk long
RaceRecordings ==
    { OtherFile("webm", NonWavSize),
      WavFile(RqRate, 1, 2, 0, ChunkLength * RqRate) }

NoWriters == [f \in {} |-> 0]

InitCalls(recordings) ==
    /\ fs = NoFiles
    /\ apiKey = TRUE
    /\ soundfile \in BOOLEAN
    /\ IdleOrch
    /\ IdleConv
    /\ IdleHdr
    /\ IdleSil
    /\ IdleMerge
    /\ IdleStt
    /\ IdleVoice
    /\ IdleCard
    /\ rq \in [Requests -> {[NoCall EXCEPT !.audio_bytes = a] : a \in recordings}]
    /\ writer = NoWriters
    /\ foreign = {}
    /\ overlap = FALSE

NextCalls ==
    \E r \in Requests :
        \/ RqStart(r)
        \/ RqConvWrite(r)
        \/ RqConvStrategies(r)
        \/ RqConvFinally(r)
        \/ RqNoAudio(r)
        \/ RqSave(r)
        \/ RqSizeCheck(r)
        \/ RqValidate(r)
        \/ RqSplitOpen(r)
        \/ RqSplitIter(r)
        \/ RqSplitReturn(r)
        \/ RqWholeFile(r)
        \/ RqTranscribeChunk(r)
        \/ RqCleanupChunk(r)
        \/ RqReturn(r)
        \/ RqFinally(r)

\* one call at a time, as with a single session
InitSerial == InitCalls(RqRecordings) /\ serial = TRUE /\ IdleHandle

SpecSerial == InitSerial /\ [][NextCalls]_vars

\* calls of two sessions at the same time
InitConcurrent == InitCalls(RaceRecordings) /\ serial = FALSE /\ IdleHandle

SpecConcurrent == InitConcurrent /\ [][NextCalls]_vars

(***************************************************************************)
(* chat.py handle_audio_input, for the recordings of one session one after *)
(* the other: what a call does to st.session_state and to the conversation *)
(* with the language model once _process_audio_to_text has returned.       *)
(***************************************************************************)
\* lines 183-185: the history a session starts with
Greeting == [role |-> "assistant", content |-> <<"H", "i">>]

\* lines 167 and 172: the codes detect_and_normalize_language may return
Languages == {"en-IN", "hi-IN"}

NoLanguage == "none"

\* the call of handle_audio_input for request r has not returned
Unhandled(r) == r \notin handled

\* line 407 and 411: _validate_audio_input
ValidAudio(audio) == ~Falsy(audio)

\* lines 372-379: without the API key, or with a recording that fails
\* validation, the call returns at once
HandleReject(r) ==
    /\ rq[r].pc = "idle"
    /\ Unhandled(r)
    /\ \A o \in Requests : Running(o) \/ rq[o].pc = "done" => o \in handled
    /\ \E key \in BOOLEAN : ~key \/ ~ValidAudio(rq[r].audio_bytes)
    /\ handled' = handled \cup {r}
    /\ UNCHANGED <<fs, apiKey, orchVars, convVars, hdrVars, silVars, mergeVars, sttVars,
                   reqVars, voiceVars, cardVars, messages, original_language, sent>>

\* lines 372-384: the key is there and the recording is valid, and
\* _process_audio_to_text is called
HandleStart(r) ==
    /\ Unhandled(r)
    /\ \A o \in Requests : rq[o].pc = "done" => o \in handled
    /\ ValidAudio(rq[r].audio_bytes)
    /\ RqStart(r)

\* variant of Accepts without the test of line 385
Accepts_Anything(transcript) == TRUE

\* line 385: if not transcript: return
Accepts(transcript) == transcript # NoText

\* lines 385-405 and 504-525: _process_audio_to_text has returned or raised;
\* after an exception or without a transcript the call ends, otherwise the
\* language is stored, the user message appended and the prompt sent, and
\* the answer, if one comes, is appended too
HandleResult(r) ==
    /\ rq[r].pc = "done"
    /\ Unhandled(r)
    /\ handled' = handled \cup {r}
    /\ IF rq[r].raised \/ ~Accepts(rq[r].result)
       THEN UNCHANGED <<messages, original_language, sent>>
       ELSE \E detected_lang \in Languages : \E answered \in BOOLEAN :
              /\ original_language' = detected_lang
              /\ sent' = Append(sent, rq[r].result)
              /\ messages' = Append(messages, [role |-> "user", content |-> rq[r].result])
                             \o (IF answered THEN <<[role |-> "assistant",
                                                     content |-> <<"o", "k">>]>>
                                 ELSE <<>>)
    /\ UNCHANGED <<fs, apiKey, orchVars, convVars, hdrVars, silVars, mergeVars, sttVars,
                   reqVars, voiceVars, cardVars>>

\* the recordings of the session: those of the calls and an empty one
HandleRecordings == RqRecordings \cup {OtherFile("webm", 0)}

InitHandle ==
    /\ InitCalls(HandleRecordings)
    /\ serial = TRUE
    /\ messages = <<Greeting>>
    /\ original_language = NoLanguage
    /\ sent = <<>>
    /\ handled = {}

NextHandle ==
    \E r \in Requests :
        \/ HandleReject(r)
        \/ HandleStart(r)
        \/ RqConvWrite(r)
        \/ RqConvStrategies(r)
        \/ RqConvFinally(r)
        \/ RqNoAudio(r)
        \/ RqSave(r)
        \/ RqSizeCheck(r)
        \/ RqValidate(r)
        \/ RqSplitOpen(r)
        \/ RqSplitIter(r)
        \/ RqSplitReturn(r)
        \/ RqWholeFile(r)
        \/ RqTranscribeChunk(r)
        \/ RqCleanupChunk(r)
        \/ RqReturn(r)
        \/ RqFinally(r)
        \/ HandleResult(r)

SpecHandle == InitHandle /\ [][NextHandle]_vars

(***************************************************************************)
(* chat.py load_fincard_data, save_fincard_data and                        *)
(* _handle_fincard_submission: the FinCard data file over a sequence of    *)
(* submissions.  The file is missing, empty, holds the JSON text of a list *)
(* of entries, or holds text that is not JSON.                             *)
(***************************************************************************)
MaxSubmissions == 3

MaxStored == 1

\* the form entries a user may submit
FormEntries == {"A", "B"}

MissingCard == [kind |-> "missing", entries |-> <<>>]

EmptyCard == [kind |-> "empty", entries |-> <<>>]

\* json.dump(data, file, indent=4) has written all of the list
ListCard(entries) == [kind |-> "list", entries |-> entries]

\* the write stopped part of the way: the text is not JSON
PartialCard == [kind |-> "invalid", entries |-> <<>>]

\* lines 103-110: what load_fincard_data returns for the file
load_fincard_data(file) == IF file.kind = "list" THEN file.entries ELSE <<>>

\* lines 103-105: the file is opened for reading, which may raise OSError;
\* line 626: the new entry is appended to the list that was loaded
CardLoad ==
    /\ fpc = "load"
    /\ fbefore' = load_fincard_data(cardFile)
    /\ \E form_entry \in FormEntries : \E readable \in BOOLEAN :
         IF readable \/ cardFile.kind \in {"missing", "empty"}
         THEN /\ fincard_data' = Append(load_fincard_data(cardFile), form_entry)
              /\ fpc' = "open"
         ELSE /\ fincard_data' = <<>>
              /\ fpc' = "done"
    /\ UNCHANGED <<fs, apiKey, orchVars, convVars, extButCard, cardFile, fcount>>

\* line 121: open(DATA_FILE, "w") truncates the file, or raises and the
\* except clause of line 123 reports it
CardOpen ==
    /\ fpc = "open"
    /\ \E ok \in BOOLEAN :
         IF ok THEN cardFile' = EmptyCard /\ fpc' = "dump"
         ELSE cardFile' = cardFile /\ fpc' = "done"
    /\ UNCHANGED <<fs, apiKey, orchVars, convVars, extButCard, fincard_data, fbefore, fcount>>

\* lines 122-125: json.dump writes the list; a write that raises leaves the
\* beginning of the text in the file, and the except clause reports it
CardDump ==
    /\ fpc = "dump"
    /\ \E outcome \in {"ok", "fails_at_once", "fails_midway"} :
         cardFile' = CASE outcome = "ok" -> ListCard(fincard_data)
                       [] outcome = "fails_at_once" -> EmptyCard
                       [] OTHER -> PartialCard
    /\ fpc' = "done"
    /\ UNCHANGED <<fs, apiKey, orchVars, convVars, extButCard, fincard_data, fbefore, fcount>>

\* line 610: the form is submitted again
CardSubmit ==
    /\ fpc = "done"
    /\ fcount < MaxSubmissions
    /\ fcount' = fcount + 1
    /\ fpc' = "load"
    /\ UNCHANGED <<fs, apiKey, orchVars, convVars, extButCard, cardFile, fincard_data, fbefore>>

\* the lists of at most n entries
RECURSIVE EntryLists(_)
EntryLists(n) ==
    IF n = 0 THEN {<<>>}
    ELSE EntryLists(n - 1)
         \cup {Append(l, e) : l \in {k \in EntryLists(n - 1) : Len(k) = n - 1},
                              e \in FormEntries}

InitCard ==
    /\ fs = <<>>
    /\ apiKey = TRUE
    /\ soundfile = FALSE
    /\ IdleOrch
    /\ IdleConv
    /\ IdleHdr
    /\ IdleSil
    /\ IdleMerge
    /\ IdleStt
    /\ IdleReq
    /\ IdleVoice
    /\ IdleHandle
    /\ fpc = "load"
    /\ cardFile \in {MissingCard, EmptyCard} \cup {ListCard(l) : l \in EntryLists(MaxStored)}
    /\ fincard_data = <<>>
    /\ fbefore = <<>>
    /\ fcount = 1

NextCard ==
    \/ CardLoad
    \/ CardOpen
    \/ CardDump
    \/ CardSubmit

SpecCard == InitCard /\ [][NextCard]_vars

(***************************************************************************)
(* Properties of process_long_audio and split_audio.                       *)
(***************************************************************************)
RECURSIVE JoinTexts(_)
JoinTexts(texts) ==
    IF texts = <<>> THEN NoText
    ELSE IF Len(texts) = 1 THEN texts[1]
    ELSE texts[1] \o <<" ">> \o JoinTexts(Tail(texts))

IsNonEmpty(text) == text # NoText

CallFiles == [i \in 1..Len(calls) |-> calls[i].file]

CallTexts == [i \in 1..Len(calls) |-> calls[i].text]

\* C1: when the chunker returned chunks 1..N, process_long_audio calls
\* audio_to_text once per chunk in ascending order and returns the non-empty
\* transcripts of those calls, in that order, joined by single spaces, with
\* no leading or trailing whitespace
C1_TranscriptIsOrderedJoin ==
    (pc = "done" /\ chunks # <<>>) =>
        /\ CallFiles = chunks
        /\ result = JoinTexts(SelectSeq(CallTexts, IsNonEmpty))
        /\ result = NoText \/ (result[1] \notin Whitespace /\ result[Len(result)] \notin Whitespace)

C1_Witness ==
    /\ pc = "done"
    /\ Len(chunks) = 3
    /\ CallTexts = << <<"a", " ", "b">>, NoText, <<"b">> >>
    /\ result = <<"a", " ", "b", " ", "b">>

ExpectedChunkCount(num_frames, frame_rate) ==
    (num_frames + ChunkLength * frame_rate - 1) \div (ChunkLength * frame_rate)

ExpectedFrames(i, num_frames, frame_rate) ==
    LET rest == num_frames - ChunkLength * frame_rate * (i - 1)
    IN  IF rest < ChunkLength * frame_rate THEN rest ELSE ChunkLength * frame_rate

\* C2: split_audio on a readable file of D seconds, when no chunk write
\* fails, returns ceil(D/30) chunks and chunk i holds
\* round(min(30, D - 30*(i-1)) * sampleRate) frames
C2_ChunkCountAndFrames ==
    (pc = "check" /\ sp.frame_rate > 0 /\ ~writeFailed) =>
        /\ Len(chunks) = ExpectedChunkCount(sp.num_frames, sp.frame_rate)
        /\ \A i \in 1..Len(chunks) :
             NFrames(fs[chunks[i]]) = ExpectedFrames(i, sp.num_frames, sp.frame_rate)

\* C3: the frame ranges carved by split_audio tile the parent file: the first
\* starts at frame 0, each ends where the next starts, the last ends at the
\* parent's frame count
C3_RangesTileParent ==
    (pc = "check" /\ sp.frame_rate > 0 /\ ranges # <<>>) =>
        /\ ranges[1][1] = 0
        /\ \A i \in 1..(Len(ranges) - 1) : ranges[i][2] = ranges[i + 1][1]
        /\ ranges[Len(ranges)][2] = sp.num_frames

\* C4: for a missing or zero-length input process_long_audio returns the
\* empty string without calling the chunker or the transcription function
C4_InvalidInputReturnsEmpty ==
    (pc = "done" /\ ~(Exists(fs, InputFile) /\ GetSize(fs, InputFile) # 0)) =>
        /\ result = NoText
        /\ splitCalls = 0
        /\ calls = <<>>

C4_Witness ==
    /\ pc = "done"
    /\ ~caught
    /\ Exists(fs, InputFile)
    /\ GetSize(fs, InputFile) = 0

\* C5: when the chunker returns no chunks for an existing non-empty file,
\* process_long_audio makes exactly one transcription call, on the original
\* file, and returns that call's result
C5_WholeFileFallback ==
    (pc = "done" /\ splitCalls = 1 /\ chunks = <<>>) =>
        /\ Len(calls) = 1
        /\ calls[1].file = InputFile
        /\ result = calls[1].text

C5_Witness ==
    /\ pc = "done"
    /\ splitCalls = 1
    /\ chunks = <<>>
    /\ fs[InputFile].kind = "raw"
    /\ result = <<"a", " ", "b">>

C7_NoChunkFileRemains ==
    pc = "done" => created \cap DOMAIN fs = {}


(***************************************************************************)
(* Properties of convert_webm_to_wav.                                      *)
(***************************************************************************)
HasWavSignature(bytes) == Slice(bytes, 0, 4) = RIFF /\ Slice(bytes, 8, 12) = WAVE

\* C8: after convert_webm_to_wav returns, on every exit path, the scratch
\* file temp_audio_input does not exist
C8_ScratchFileRemoved ==
    cpc = "done" => ~Exists(fs, TempFile)

C8_Witness ==
    /\ cpc = "done"
    /\ tempCreated
    /\ cexc
    /\ ~Exists(fs, TempFile)

LibraryYieldedNothing == tried # <<>> /\ ~Truthy(tried[1].out)

StrategyOrder == <<"soundfile", "passthrough", "fallback">>

\* C10: the strategies are tried in the order library decode, passthrough,
\* fallback synthesis, each only after all earlier ones failed; the value
\* returned is the output of the first that succeeded; fallback synthesis is
\* never applied to an input that carries the RIFF/WAVE signature
C10_FirstSuccessInOrder ==
    /\ Len(tried) <= 3
    /\ \A i \in 1..Len(tried) : tried[i].name = StrategyOrder[i]
    /\ \A i \in 1..(Len(tried) - 1) : ~Truthy(tried[i].out)
    /\ (cpc \in {"finally", "done"} /\ tried # <<>>) =>
          IF Truthy(tried[Len(tried)].out)
          THEN cresult = tried[Len(tried)].out
          ELSE Len(tried) = 3 /\ cresult = NoBytes
    /\ \A i \in 1..Len(tried) :
          tried[i].name = "fallback" => ~HasWavSignature(audio_bytes)

C10_Witness ==
    /\ cpc = "done"
    /\ Len(audio_bytes) > FallbackMinBytes
    /\ HasWavSignature(audio_bytes)
    /\ soundfile
    /\ Len(tried) = 2
    /\ cresult = tried[2].out

AllStrategiesFailed ==
    /\ Len(tried) = 3
    /\ \A i \in 1..3 : ~Truthy(tried[i].out)

\* a strategy that needs no library succeeds on the input
SomeStrategyWouldSucceed ==
    \/ Truthy(_check_existing_wav_format(audio_bytes))
    \/ Truthy(_create_basic_wav_fallback(audio_bytes))
    \/ (tried # <<>> /\ Truthy(tried[1].out))

\* C11 as stated: for an input of at least 100 bytes convert_webm_to_wav
\* returns None only when all three strategies failed, and returns a
\* non-empty result whenever some strategy would succeed on the input
C11_NoneOnlyWhenAllFailed ==
    (cpc = "done" /\ Len(audio_bytes) >= MinAudioBytes) =>
        /\ cresult = NoBytes => AllStrategiesFailed
        /\ SomeStrategyWouldSucceed => Truthy(cresult)

\* C11 as amended: for an input of at least 100 bytes convert_webm_to_wav
\* returns None only when all three strategies failed or writing the scratch
\* file raised; when the scratch file was written and some strategy would
\* succeed on the input, the result is non-empty
C11_NoneOnlyWhenAllFailedOrWriteRaised ==
    (cpc = "done" /\ Len(audio_bytes) >= MinAudioBytes) =>
        /\ cresult = NoBytes => (AllStrategiesFailed \/ (cexc /\ tried = <<>>))
        /\ (~cexc /\ SomeStrategyWouldSucceed) => Truthy(cresult)
        /\ (~cexc /\ ~SomeStrategyWouldSucceed) => cresult = NoBytes

C11_Witness ==
    /\ cpc = "done"
    /\ ~cexc
    /\ ~HasWavSignature(audio_bytes)
    /\ Len(audio_bytes) = FallbackMinBytes + 1
    /\ Len(tried) = 3
    /\ Truthy(cresult)

\* C12: convert_webm_to_wav returns None for an empty input and for any
\* input shorter than 100 bytes, without trying a conversion strategy and
\* without creating the scratch file
C12_SmallInputRejected ==
    Len(audio_bytes) < MinAudioBytes =>
        /\ tried = <<>>
        /\ ~tempCreated
        /\ ~Exists(fs, TempFile)
        /\ cpc \in {"start", "done"}
        /\ cpc = "done" => cresult = NoBytes

C12_Witness ==
    /\ cpc = "done"
    /\ Len(audio_bytes) = MinAudioBytes - 1
    /\ HasWavSignature(audio_bytes)
    /\ cresult = NoBytes

(***************************************************************************)
(* Properties of create_basic_wav.                                         *)
(***************************************************************************)
\* the header's 32-bit field at the given offset, as a wide number
Field(header, offset) == Pad(Slice(header, offset, offset + 4))

HeaderWellFormed(header, len) ==
    /\ header # NoBytes
    /\ Len(header) = WavHeaderSize
    /\ Field(header, 40) = len
    /\ Field(header, 4) = WideAdd(Field(header, 40), 36)

\* C13 as stated: for every dataLength >= 0 the header built by
\* create_basic_wav is exactly 44 bytes, its chunk-size field equals
\* 36 + dataLength and its data sub-chunk size field equals dataLength
C13_HeaderForEveryLength ==
    hpc = "done" => HeaderWellFormed(hresult, data_length)

FitsField(a) == \A i \in 5..WideDigits : a[i] = 0

\* C13 as amended: for every dataLength >= 0 with 36 + dataLength < 2^32 the
\* header built by create_basic_wav is exactly 44 bytes, its chunk-size field
\* equals 36 + dataLength and its data sub-chunk size field equals dataLength;
\* for 36 + dataLength >= 2^32 create_basic_wav returns None
C13_HeaderWhenLengthFits ==
    hpc = "done" =>
        IF FitsField(WideAdd(data_length, 36))
        THEN HeaderWellFormed(hresult, data_length)
        ELSE hresult = NoBytes

C13_Witness ==
    /\ hpc = "done"
    /\ data_length = Pad(<<256 - 37, 255, 255, 255>>)
    /\ Field(hresult, 4) = Pad(<<255, 255, 255, 255>>)

(***************************************************************************)
(* Properties of detect_silence.                                           *)
(***************************************************************************)
AllZeroBuffer(bytes) == \A i \in 1..Len(bytes) : bytes[i] = 0

\* C14: detect_silence on an all-zero sample buffer of length at least 1000
\* returns true for every positive threshold, whatever the buffer's length
C14_ZeroBufferIsSilent ==
    (/\ dpc = "done"
     /\ AllZeroBuffer(silence_bytes)
     /\ Len(silence_bytes) >= SilenceMinBytes
     /\ threshold.num > 0) => dresult = "True"

\* C15: detect_silence never raises: an exception on the decode path or on
\* the fallback path makes it return false, and on the decode path the
\* scratch file temp_silence_check is removed before it returns
C15_SilenceFailsOpen ==
    /\ dpc = "done" => dresult \in {"True", "False"}
    /\ (dpc = "done" /\ dvalue = "raised") => (dexc /\ dresult = "False")
    /\ dpc \in {"except", "done"} => ~Exists(fs, SilenceFile)

C15_Witness ==
    /\ dpc = "done"
    /\ soundfile
    /\ dtemp
    /\ dvalue = "raised"
    /\ dresult = "False"
    /\ ~Exists(fs, SilenceFile)

(***************************************************************************)
(* Properties of merge_audio.                                              *)
(***************************************************************************)
IsTone(bytes) == \E i \in 1..MaxMergeFiles : bytes = Tone(i)

\* the payloads of the first k input files that existed at the call
RECURSIVE ConcatPayloads(_)
ConcatPayloads(k) ==
    IF k = 0 THEN <<>>
    ELSE ConcatPayloads(k - 1)
         \o (IF Exists(mfs0, audio_files[k]) THEN WavPayload(mfs0[audio_files[k]].data)
             ELSE <<>>)

SomeInputMissing == \E k \in 1..Len(audio_files) : ~Exists(mfs0, audio_files[k])

SomeInputExists == \E k \in 1..Len(audio_files) : Exists(mfs0, audio_files[k])

\* every input file that exists is a mono 16-bit recording
InputsAlike ==
    \A k \in 1..Len(audio_files) :
        Exists(mfs0, audio_files[k]) => IsTone(mfs0[audio_files[k]].data)

\* C16: merge_audio never raises and skips missing input files: when some
\* of the files are missing, the first one included, the output file holds
\* the concatenation, in input order, of the payloads of the files that exist
C16_MergeSkipsMissing ==
    (/\ mpc = "done"
     /\ SomeInputMissing
     /\ SomeInputExists
     /\ InputsAlike
     /\ ~mg.ioFailed) =>
        /\ HasBytes(fs, OutputFile)
        /\ IsPcmWav(fs[OutputFile].data)
        /\ WavPayload(fs[OutputFile].data) = ConcatPayloads(Len(audio_files))

\* C17: merge_audio deletes every input file after a successful merge, and
\* only then: when the merge step raises, no input file is deleted
C17_InputsDeletedOnlyAfterSuccess ==
    /\ mpc \in {"except", "done"} => (mexc <=> (mg.raised /\ mpc = "done"))
    /\ (mpc = "done" /\ audio_files # <<>>) =>
          IF mg.raised
          THEN \A k \in 1..Len(audio_files) :
                   Exists(mfs0, audio_files[k]) =>
                       (Exists(fs, audio_files[k]) /\ fs[audio_files[k]] = mfs0[audio_files[k]])
          ELSE \A k \in 1..Len(audio_files) : ~Exists(fs, audio_files[k])

C17_Witness ==
    /\ mpc = "done"
    /\ mexc
    /\ Len(audio_files) = 2
    /\ HasBytes(fs, OutputFile)
    /\ IsPcmWav(fs[OutputFile].data)
    /\ WavPayload(fs[OutputFile].data) = WavPayload(Tone(1))
    /\ Exists(fs, audio_files[1])
    /\ Exists(fs, audio_files[2])

(***************************************************************************)
(* Properties of audio_to_text.                                            *)
(***************************************************************************)
Characters == {" ", "\n", "a", "b", "N", "o", "n", "e"}

IsString(value) == \A i \in 1..Len(value) : value[i] \in Characters

\* the JSON payload has none of the keys the code looks for
LacksTranscriptKeys(payload) ==
    /\ payload.text = Absent
    /\ payload.transcript = Absent
    /\ payload.output = Absent
    /\ payload.result.t # "dict" \/ (payload.rtext = Absent /\ payload.rtranscript = Absent)

\* C18: audio_to_text returns a string on every path and never raises; it
\* returns the empty string when the API key is missing and when the file is
\* missing or empty, both without a network request, on a network error, on
\* a non-200 status and on a JSON response without the transcript keys
C18_TranscriptionNeverRaises ==
    /\ tpc \in {"idle", "start", "check_file", "post", "respond", "except", "done"}
    /\ posts <= 1
    /\ tpc = "done" =>
          /\ IsString(tresult)
          /\ tresult = audio_to_text(apiKey, fs, tpath, tresp) \/ tresp = NoResponse
          /\ ~apiKey => (tresult = NoText /\ posts = 0)
          /\ (~Exists(fs, tpath) \/ GetSize(fs, tpath) = 0) => (tresult = NoText /\ posts = 0)
          /\ tresp.kind = "neterror" => tresult = NoText
          /\ (tresp # NoResponse /\ tresp.status # 200) => tresult = NoText
          /\ (tresp.kind = "http" /\ LacksTranscriptKeys(tresp.payload)) => tresult = NoText
          /\ tresp = NoResponse => tresult = NoText

C18_Witness ==
    /\ tpc = "done"
    /\ posts = 1
    /\ tresp.kind = "http"
    /\ tresp.status = 200
    /\ tresp.payload.result = JStr(<<"a">>)
    /\ tresult = NoText

(***************************************************************************)
(* Properties of _process_audio_to_text.                                   *)
(***************************************************************************)
Ops(life) == {life[i] : i \in 1..Len(life)}

\* created first, deleted last, read only in between
LifeInOrder(life) ==
    \/ life = <<>>
    \/ /\ Len(life) >= 2
       /\ life[1] = "create"
       /\ life[Len(life)] = "delete"
       /\ \A i \in 2..(Len(life) - 1) : life[i] = "read"

\* C20: with one call at a time, once _process_audio_to_text has returned or
\* raised, on any path, recorded_audio.wav does not exist; the call created
\* the file, read it and deleted it, in this order, and no call finds the
\* file of an earlier one.
C20_SavedFileLivesWithinCall ==
    /\ (\A r \in Requests : ~Running(r)) => ~Exists(fs, InputFile)
    /\ \A r \in Requests : rq[r].pc = "done" => LifeInOrder(rq[r].life)
    /\ \A r \in Requests :
         Running(r) /\ Exists(fs, InputFile) => writer[InputFile] = r

\* both calls are over: one returned a transcript after reading its file,
\* the other raised after creating its file
C20_Witness ==
    \E r \in Requests : \E o \in Requests \ {r} :
        /\ rq[r].pc = "done" /\ rq[r].result # NoText
        /\ Ops(rq[r].life) = {"create", "read", "delete"}
        /\ rq[o].pc = "done" /\ rq[o].raised
        /\ Ops(rq[o].life) = {"create", "delete"}

\* the names a scratch file of the pipeline can have
IsScratchName(name) ==
    \/ name \in {TempFile, InputFile}
    \/ \E r \in Requests : \E i \in 1..rq[r].sp.index : name = ChunkName(i)

Foreign(op, name) == [op |-> op, file |-> name]

\* C19: the scratch files of two calls that run at once have the same names,
\* whichever call writes them, so that a call can read, transcribe or delete
\* a file the other call wrote; it does so only if the two calls overlap.
C19_CallsShareScratchNames ==
    /\ \A name \in DOMAIN fs : IsScratchName(name) /\ writer[name] \in Requests
    /\ \A access \in foreign : IsScratchName(access.file)
    /\ foreign # {} => overlap

\* the calls have read, transcribed and deleted files of each other
C19_Witness ==
    /\ overlap
    /\ Foreign("read", TempFile) \in foreign
    /\ Foreign("read", InputFile) \in foreign
    /\ Foreign("transcribe", ChunkName(1)) \in foreign
    /\ Foreign("delete", ChunkName(1)) \in foreign
    /\ Foreign("delete", InputFile) \in foreign

(***************************************************************************)
(* Properties of the chunk loop of process_long_audio.                     *)
(***************************************************************************)
\* C21: in the chunk loop, when the transcription call of a chunk starts and
\* while it is in progress the file of that chunk exists, and the files of
\* all chunks before it are gone, whatever their calls returned
C21_ChunkFileLivesForItsCall ==
    (pc \in {"loop", "cleanup"} /\ chunks # <<>>) =>
        /\ \A j \in 1..Len(chunks) : j < pos => ~Exists(fs, chunks[j])
        /\ pos <= Len(chunks) => Exists(fs, chunks[pos])

\* the call of the second chunk is about to start after the call of the
\* first returned nothing
C21_Witness ==
    /\ pc = "loop"
    /\ pos = 2
    /\ Len(chunks) >= 2
    /\ Len(calls) = 1
    /\ calls[1].text = NoText
    /\ ~Exists(fs, chunks[1])
    /\ Exists(fs, chunks[2])

\* C22: in the chunk loop the calls made so far are those of the chunks
\* before the loop position, one call each, in chunk order; when
\* process_long_audio returns, every chunk has had exactly one call, also
\* after calls that returned nothing
C22_OneCallPerChunkInOrder ==
    (chunks # <<>> /\ pc \in {"loop", "cleanup", "done"}) =>
        /\ pc = "loop" => CallFiles = SubSeq(chunks, 1, pos - 1)
        /\ pc = "cleanup" => CallFiles = SubSeq(chunks, 1, pos)
        /\ pc = "done" => CallFiles = chunks

\* three chunks, the first call returned nothing, the others were made
C22_Witness ==
    /\ pc = "done"
    /\ Len(chunks) = 3
    /\ Len(calls) = 3
    /\ calls[1].text = NoText
    /\ calls[2].text = NoText
    /\ calls[3].text # NoText

(***************************************************************************)
(* Properties of the fallback synthesis.                                   *)
(***************************************************************************)
\* the 44 bytes lines 162-175 build for a payload of len bytes
CanonicalHeader(header, len) ==
    /\ HeaderWellFormed(header, len)
    /\ Slice(header, 0, 4) = RIFF
    /\ Slice(header, 8, 16) = WAVE \o FMT
    /\ FromBytesLE(Slice(header, 16, 20)) = 16
    /\ FromBytesLE(Slice(header, 20, 22)) = 1
    /\ FromBytesLE(Slice(header, 22, 24)) = 1
    /\ FromBytesLE(Slice(header, 24, 28)) = 44100
    /\ FromBytesLE(Slice(header, 28, 32)) = 88200
    /\ FromBytesLE(Slice(header, 32, 34)) = 2
    /\ FromBytesLE(Slice(header, 34, 36)) = 16
    /\ Slice(header, 36, 40) = DATA

\* a payload of len bytes, for a len below 2^16
SmallPayload(len) == [i \in 1..(len[1] + 256 * len[2]) |-> (7 * i) % 256]

\* C23 as stated: the fallback synthesis succeeds for every input of more
\* than 1000 bytes, with the 44-byte header for 44100 Hz, 1 channel, 16 bits,
\* byte rate 88200, block align 2 in front of the input, and returns the
\* failure value for an input of at most 1000 bytes
C23_FallbackForEveryLargeInput ==
    hpc = "done" =>
        IF WideAtMost(data_length, 1000)
        THEN hresult = NoBytes
        ELSE CanonicalHeader(hresult, data_length)

\* C23 as amended: the fallback synthesis succeeds for every input of more
\* than 1000 bytes and fewer than 2^32 - 36 bytes, with the 44-byte header
\* for 44100 Hz, 1 channel, 16 bits, byte rate 88200, block align 2 in front
\* of the input; it returns the failure value for an input of at most 1000
\* bytes and for one of 2^32 - 36 bytes or more
C23_FallbackWhenLengthFits ==
    hpc = "done" =>
        IF WideAtMost(data_length, 1000) \/ ~FitsField(WideAdd(data_length, 36))
        THEN hresult = NoBytes
        ELSE /\ CanonicalHeader(hresult, data_length)
             /\ WideAtMost(data_length, NonWavSize) =>
                    LET input == SmallPayload(data_length)
                    IN  /\ create_basic_wav(input) = hresult \o input
                        /\ Len(create_basic_wav(input)) = 44 + Len(input)

\* the shortest input the fallback wraps
C23_Witness ==
    /\ hpc = "done"
    /\ data_length = Pad(<<233, 3>>)
    /\ hresult # NoBytes
    /\ Field(hresult, 4) = Pad(<<13, 4>>)

(***************************************************************************)
(* Properties of the files convert_webm_to_wav produces.                   *)
(***************************************************************************)
\* the block align a WAV header declares
BlockAlign(bytes) == FromBytesLE(Slice(bytes, 32, 34))

\* C24: the payload of every file convert_webm_to_wav produces, one built
\* by the fallback synthesis included, is a whole number of frames: its
\* length is a multiple of the block align the header declares
C24_PayloadIsWholeFrames ==
    (cpc = "done" /\ cresult # NoBytes) =>
        /\ BlockAlign(cresult) > 0
        /\ (Len(cresult) - WavHeaderSize) % BlockAlign(cresult) = 0

(***************************************************************************)
(* Termination of split_audio.                                             *)
(***************************************************************************)
\* the while loop has run as many times as the file has strides of 30
\* seconds, each from the start time of the one before plus 30
StridesCoverFile ==
    (pc = "check" /\ sp.frame_rate > 0) =>
        /\ Len(ranges) = ExpectedChunkCount(sp.num_frames, sp.frame_rate)
        /\ sp.index = Len(ranges) + 1
        /\ sp.start_time = ChunkLength * Len(ranges)
        /\ \A i \in 1..Len(ranges) :
             ranges[i][1] = ChunkLength * sp.frame_rate * (i - 1)
        /\ Len(chunks) <= Len(ranges)

\* C25: split_audio on a readable file terminates: the loop is always left,
\* after one iteration per stride of 30 seconds whether or not the chunks
\* were written, a chunk that could not be written being left out of the
\* list
C25_SplitTerminates ==
    /\ (pc = "split_loop") ~> (pc = "check")
    /\ []StridesCoverFile

\* split_audio has returned after three iterations, one of which failed
C25_Witness ==
    /\ pc = "check"
    /\ Len(ranges) = 3
    /\ Len(chunks) = 2
    /\ chunks[2] = ChunkName(3)

(***************************************************************************)
(* The input file of process_long_audio.                                   *)
(***************************************************************************)
\* C27: no step of process_long_audio deletes, creates or rewrites the file
\* at its input path; the files it writes and removes are chunk files
C27_InputFileUntouched ==
    [][/\ (InputFile \in DOMAIN fs) = (InputFile \in DOMAIN fs')
       /\ InputFile \in DOMAIN fs => fs'[InputFile] = fs[InputFile]
       /\ \A f \in (DOMAIN fs \cup DOMAIN fs') :
            (f \notin DOMAIN fs \/ f \notin DOMAIN fs' \/ fs'[f] # fs[f])
                => \E i \in 1..(MaxFullChunks + 2) : f = ChunkName(i)]_vars

\* the call has returned after writing, transcribing and removing two chunks,
\* and the input file is still there
C27_Witness ==
    /\ pc = "done"
    /\ Len(chunks) = 2
    /\ Len(calls) = 2
    /\ InputFile \in DOMAIN fs
    /\ \A i \in 1..2 : ChunkName(i) \notin DOMAIN fs

(***************************************************************************)
(* The length of what is sent to the transcription service.                *)
(***************************************************************************)
\* C28: every file process_long_audio has passed to audio_to_text holds at
\* most 30 seconds of audio, that is at most 30 * frame_rate frames
C28_EveryCallAtMostThirtySeconds ==
    (Exists(fs, InputFile) /\ fs[InputFile].kind = "wav" /\ fs[InputFile].rate > 0) =>
        \A i \in 1..Len(calls) : calls[i].frames <= ChunkLength * fs[InputFile].rate

(***************************************************************************)
(* The audio played at the end of a voice request.                         *)
(***************************************************************************)
\* C26: no voice request has played a final_output.wav that was already
\* there, unchanged, when its own merge_audio call began
C26_StaleOutputNeverPlayed ==
    \A k \in 1..Len(played) : ~(played[k].kind = "audio" /\ played[k].stale)

(***************************************************************************)
(* What handle_audio_input does to the session.                            *)
(***************************************************************************)
sessionVars == <<messages, original_language, sent>>

\* request r has come through validation, conversion and the size test, and
\* its transcript has at least 2 characters after trimming
UsableTranscript(r) ==
    /\ ValidAudio(rq[r].audio_bytes)
    /\ ~Falsy(rq[r].wav_data)
    /\ rq[r].wav_data.size > 1000
    /\ rq[r].result # NoText
    /\ rq[r].result # Pending
    /\ Len(Strip(rq[r].result)) >= 2

\* C29: the chat history, the stored original_language and what has been sent
\* to the language model change only in the step in which handle_audio_input
\* takes a usable transcript, and that step appends the user message with
\* the transcript: a recording that fails validation, a failed conversion, a
\* saved file of 1000 bytes or less and an empty or one-character transcript
\* leave all three as they were
C29_SessionChangesOnlyForUsableTranscript ==
    [][sessionVars' # sessionVars =>
         \E r \in Requests :
            /\ handled' = handled \cup {r}
            /\ r \notin handled
            /\ UsableTranscript(r)
            /\ Len(messages') > Len(messages)
            /\ messages'[Len(messages) + 1] = [role |-> "user", content |-> rq[r].result]
            /\ SubSeq(messages', 1, Len(messages)) = messages
            /\ sent' = Append(sent, rq[r].result)]_vars

\* the first request was answered, the second, whose saved file was too
\* small, has come back and the history is the one the first request left
C29_Witness ==
    /\ handled = Requests
    /\ Len(sent) = 1
    /\ Len(messages) = 3
    /\ messages[2].role = "user"
    /\ \E r \in Requests :
         /\ rq[r].pc = "done"
         /\ ~Falsy(rq[r].wav_data)
         /\ rq[r].wav_data.size <= 1000
         /\ rq[r].life = <<"create", "delete">>

(***************************************************************************)
(* The FinCard data file.                                                  *)
(***************************************************************************)
IsPrefixOf(a, b) == Len(a) <= Len(b) /\ SubSeq(b, 1, Len(a)) = a

\* C30: when a submission has returned, the list stored in the data file
\* begins with the list that was stored when the submission began: no
\* earlier entry is lost or changed
C30_NoEarlierEntryLost ==
    fpc = "done" => IsPrefixOf(fbefore, load_fincard_data(cardFile))

====
